---- MODULE Spec2Model ----
(***************************************************************************)
(* A model of the Script layer of the programmingbitcoin library           *)
(* (src/modified_src/script.py, op.py, helper.py).                         *)
(*                                                                         *)
(* Python values are modelled as follows.  A bytes object is a sequence    *)
(* of integers 0..255.  A stack or a command list is a sequence (top of    *)
(* the stack = last element) together with the kind of its Python          *)
(* container, "deque" or "list": the two containers support different      *)
(* operations (a deque has popleft() but neither slicing nor pop(i); a     *)
(* list has slicing and pop(i) but no popleft()), and an unsupported       *)
(* operation raises.  A call's outcome is "True", "False" or the name of   *)
(* the exception it raised.                                                *)
(***************************************************************************)
EXTENDS Integers, Sequences, FiniteSets, TLC

VARIABLES pc, self_cmds, cmdsKind, cmds, stack, stackKind, altstack, z,
          call, result, inval, step1, step2, cache, returned, heap, scripts,
          changed

vars == <<pc, self_cmds, cmdsKind, cmds, stack, stackKind, altstack, z,
          call, result, inval, step1, step2, cache, returned, heap, scripts,
          changed>>

evalVars == <<self_cmds, cmdsKind, cmds, stack, stackKind, altstack, z, call,
              result>>

codecVars == <<inval, step1, step2>>

\* TxFetcher.cache and the outcome of the last call of TxFetcher
fetcherVars == <<cache, returned>>

\* the deque objects, the deque each Script object holds in cmds, and the
\* Script whose cmds the last step changed
scriptVars == <<heap, scripts, changed>>

(***************************************************************************)
(* Python building blocks.                                                 *)
(***************************************************************************)
Byte == 0..255

IsBytes(e) == e \in Seq(Byte)

\* a command is an int opcode or a bytes element; opcodes are integers,
\* elements are sequences.  The command alphabets used below keep the two
\* apart with a tag so that type(cmd) == int can be evaluated.
Op(n) == [int |-> n]

El(b) == [bytes |-> b]

IsInt(cmd) == "int" \in DOMAIN cmd

Min2(a, b) == IF a < b THEN a ELSE b

Max2(a, b) == IF a > b THEN a ELSE b

Abs(n) == IF n < 0 THEN -n ELSE n

\* seq[i:j] for a list, negative indices counted from the end
NormIdx(s, i) == IF i < 0 THEN Max2(Len(s) + i, 0) ELSE Min2(i, Len(s))

Slice(s, i, j) == SubSeq(s, NormIdx(s, i) + 1, NormIdx(s, j))

\* seq.pop(): the sequence without its last element
Front(s) == SubSeq(s, 1, Len(s) - 1)

Top(s) == s[Len(s)]

\* 0-based position named by Python index i, or -1 when out of range
PyPos(s, i) ==
    LET j == IF i < 0 THEN Len(s) + i ELSE i
    IN  IF j >= 0 /\ j < Len(s) THEN j ELSE -1

RemoveAt(s, j) == SubSeq(s, 1, j) \o SubSeq(s, j + 2, Len(s))

\* the outcome of a handler call: its return value (or the exception it
\* raised) and the stack it leaves behind
R(ret, st) == [ret |-> ret, stack |-> st]

Raised(ret) == ret \notin {"True", "False", "none"}

(***************************************************************************)
(* op.py: Script numbers.                                                  *)
(***************************************************************************)
RECURSIVE LittleEndian(_)
LittleEndian(n) ==
    IF n = 0 THEN <<>> ELSE <<n % 256>> \o LittleEndian(n \div 256)

\* the number itself as the only byte, without sign and magnitude
encode_num_unsigned(num) == IF num = 0 THEN <<>> ELSE <<num>>

\* the magnitude with the sign in the high bit of its last byte, without
\* the extra byte
encode_num_no_extra_byte(num) ==
    IF num = 0 THEN <<>>
    ELSE LET res == LittleEndian(Abs(num))
         IN  IF num < 0 /\ res[Len(res)] < 128
             THEN [res EXCEPT ![Len(res)] = res[Len(res)] + 128]
             ELSE res

encode_num(num) ==
    IF num = 0 THEN <<>>
    ELSE LET res == LittleEndian(Abs(num))
             last == res[Len(res)]
         IN  IF last >= 128
             THEN res \o <<(IF num < 0 THEN 128 ELSE 0)>>
             ELSE IF num < 0
                  THEN [res EXCEPT ![Len(res)] = last + 128]
                  ELSE res

RECURSIVE BigEndianValue(_, _)
BigEndianValue(acc, bs) ==
    IF bs = <<>> THEN acc
    ELSE BigEndianValue(acc * 256 + bs[Len(bs)], Front(bs))

decode_num(element) ==
    IF element = <<>> THEN 0
    ELSE LET first == element[Len(element)]
             rest == Front(element)
         IN  IF first >= 128
             THEN -BigEndianValue(first % 128, rest)
             ELSE BigEndianValue(first, rest)

(***************************************************************************)
(* Hash digests.  The digest of an element is a byte string of the         *)
(* algorithm's length, a fixed function of the algorithm and the input;    *)
(* the compression functions themselves are not modelled.                  *)
(***************************************************************************)
RECURSIVE ByteSum(_)
ByteSum(b) == IF b = <<>> THEN 0 ELSE b[1] + ByteSum(Tail(b))

Digest(alg, n, b) == [i \in 1..n |-> (alg + 7 * ByteSum(b) + Len(b) + i) % 256]

ripemd160(b) == Digest(1, 20, b)

sha1(b) == Digest(2, 20, b)

sha256(b) == Digest(3, 32, b)

hash160(b) == ripemd160(sha256(b))

hash256(b) == sha256(sha256(b))

(***************************************************************************)
(* op.py: the opcode handlers.  k is the kind of the stack's container.    *)
(***************************************************************************)
op_0(k, s) == R("True", Append(s, encode_num(0)))

op_1negate(k, s) == R("True", Append(s, encode_num(-1)))

\* op_1 .. op_16 differ only in the number they push
op_n(k, s, n) == R("True", Append(s, encode_num(n)))

op_nop(k, s) == R("True", s)

op_verify(k, s) ==
    IF Len(s) < 1 THEN R("False", s)
    ELSE IF decode_num(Top(s)) = 0 THEN R("False", Front(s))
         ELSE R("True", Front(s))

op_return(k, s) == R("False", s)

\* op_toaltstack / op_fromaltstack: the outcome carries both stacks
op_toaltstack(k, s, alt) ==
    IF Len(s) < 1 THEN [ret |-> "False", stack |-> s, alt |-> alt]
    ELSE [ret |-> "True", stack |-> Front(s), alt |-> Append(alt, Top(s))]

op_fromaltstack(k, s, alt) ==
    IF Len(alt) < 1 THEN [ret |-> "False", stack |-> s, alt |-> alt]
    ELSE [ret |-> "True", stack |-> Append(s, Top(alt)), alt |-> Front(alt)]

op_2drop(k, s) ==
    IF Len(s) < 2 THEN R("False", s) ELSE R("True", Front(Front(s)))

\* stack[-2:] is a slice: a deque raises TypeError on it
op_2dup(k, s) ==
    IF Len(s) < 2 THEN R("False", s)
    ELSE IF k = "deque" THEN R("TypeError", s)
         ELSE R("True", s \o Slice(s, -2, Len(s)))

op_3dup(k, s) ==
    IF Len(s) < 3 THEN R("False", s)
    ELSE IF k = "deque" THEN R("TypeError", s)
         ELSE R("True", s \o Slice(s, -3, Len(s)))

op_2over(k, s) ==
    IF Len(s) < 4 THEN R("False", s)
    ELSE IF k = "deque" THEN R("TypeError", s)
         ELSE R("True", s \o Slice(s, -4, -2))

op_2rot(k, s) ==
    IF Len(s) < 6 THEN R("False", s)
    ELSE IF k = "deque" THEN R("TypeError", s)
         ELSE R("True", s \o Slice(s, -6, -4))

op_2swap(k, s) ==
    IF Len(s) < 4 THEN R("False", s)
    ELSE IF k = "deque" THEN R("TypeError", s)
         ELSE R("True", Slice(s, 0, -4) \o Slice(s, -2, Len(s)) \o Slice(s, -4, -2))

op_ifdup(k, s) ==
    IF Len(s) < 1 THEN R("False", s)
    ELSE IF decode_num(Top(s)) # 0 THEN R("True", Append(s, Top(s)))
         ELSE R("True", s)

op_depth(k, s) == R("True", Append(s, encode_num(Len(s))))

op_drop(k, s) ==
    IF Len(s) < 1 THEN R("False", s) ELSE R("True", Front(s))

op_dup(k, s) ==
    IF Len(s) < 1 THEN R("False", s) ELSE R("True", Append(s, Top(s)))

op_nip(k, s) ==
    IF Len(s) < 2 THEN R("False", s)
    ELSE IF k = "deque" THEN R("TypeError", s)
         ELSE R("True", Slice(s, 0, -2) \o Slice(s, -1, Len(s)))

op_over(k, s) ==
    IF Len(s) < 2 THEN R("False", s) ELSE R("True", Append(s, s[Len(s) - 1]))

\* stack[-n - 1] after the index was popped: for a negative n the guard
\* len(stack) < n + 1 does not reject, and the index -n - 1 >= 0 names an
\* element counted from the bottom, or none (IndexError)
op_pick(k, s) ==
    IF Len(s) < 1 THEN R("False", s)
    ELSE LET n == decode_num(Top(s))
             st == Front(s)
             j == PyPos(st, -n - 1)
         IN  IF Len(st) < n + 1 THEN R("False", st)
             ELSE IF j < 0 THEN R("IndexError", st)
                  ELSE R("True", Append(st, st[j + 1]))

\* stack.pop(-n - 1): deque.pop() takes no argument (TypeError)
op_roll(k, s) ==
    IF Len(s) < 1 THEN R("False", s)
    ELSE LET n == decode_num(Top(s))
             st == Front(s)
             j == PyPos(st, -n - 1)
         IN  IF Len(st) < n + 1 THEN R("False", st)
             ELSE IF n = 0 THEN R("True", st)
             ELSE IF k = "deque" THEN R("TypeError", st)
             ELSE IF j < 0 THEN R("IndexError", st)
                  ELSE R("True", Append(RemoveAt(st, j), st[j + 1]))

op_rot(k, s) ==
    IF Len(s) < 3 THEN R("False", s)
    ELSE IF k = "deque" THEN R("TypeError", s)
         ELSE R("True", Append(RemoveAt(s, Len(s) - 3), s[Len(s) - 2]))

op_swap(k, s) ==
    IF Len(s) < 2 THEN R("False", s)
    ELSE IF k = "deque" THEN R("TypeError", s)
         ELSE R("True", Append(RemoveAt(s, Len(s) - 2), s[Len(s) - 1]))

\* stack.insert(-2, stack[-1]): supported by both containers
op_tuck(k, s) ==
    IF Len(s) < 2 THEN R("False", s)
    ELSE R("True", Slice(s, 0, -2) \o <<Top(s)>> \o Slice(s, -2, Len(s)))

op_size(k, s) ==
    IF Len(s) < 1 THEN R("False", s)
    ELSE R("True", Append(s, encode_num(Len(Top(s)))))

\* the two-operand handlers pop element1 (the top) then element2
Pop2(s) == Front(Front(s))

Elem1(s) == s[Len(s)]

Elem2(s) == s[Len(s) - 1]

Flag(b) == encode_num(IF b THEN 1 ELSE 0)

op_equal(k, s) ==
    IF Len(s) < 2 THEN R("False", s)
    ELSE R("True", Append(Pop2(s), Flag(Elem1(s) = Elem2(s))))

\* op_equal(stack) and op_verify(stack): op_verify runs on the stack
\* op_equal left, and only when op_equal returned True
op_equalverify(k, s) ==
    LET a == op_equal(k, s)
    IN  IF a.ret = "True" THEN op_verify(k, a.stack) ELSE a

op_1add(k, s) ==
    IF Len(s) < 1 THEN R("False", s)
    ELSE R("True", Append(Front(s), encode_num(decode_num(Top(s)) + 1)))

op_1sub(k, s) ==
    IF Len(s) < 1 THEN R("False", s)
    ELSE R("True", Append(Front(s), encode_num(decode_num(Top(s)) - 1)))

op_negate(k, s) ==
    IF Len(s) < 1 THEN R("False", s)
    ELSE R("True", Append(Front(s), encode_num(-decode_num(Top(s)))))

op_abs(k, s) ==
    IF Len(s) < 1 THEN R("False", s)
    ELSE LET element == decode_num(Top(s))
         IN  IF element < 0
             THEN R("True", Append(Front(s), encode_num(-element)))
             ELSE R("True", Append(Front(s), encode_num(element)))

op_not(k, s) ==
    IF Len(s) < 1 THEN R("False", s)
    ELSE R("True", Append(Front(s), Flag(decode_num(Top(s)) = 0)))

op_0notequal(k, s) ==
    IF Len(s) < 1 THEN R("False", s)
    ELSE R("True", Append(Front(s), Flag(decode_num(Top(s)) # 0)))

op_add(k, s) ==
    IF Len(s) < 2 THEN R("False", s)
    ELSE R("True", Append(Pop2(s),
               encode_num(decode_num(Elem1(s)) + decode_num(Elem2(s)))))

op_sub(k, s) ==
    IF Len(s) < 2 THEN R("False", s)
    ELSE R("True", Append(Pop2(s),
               encode_num(decode_num(Elem2(s)) - decode_num(Elem1(s)))))

op_booland(k, s) ==
    IF Len(s) < 2 THEN R("False", s)
    ELSE R("True", Append(Pop2(s),
               Flag(decode_num(Elem1(s)) # 0 /\ decode_num(Elem2(s)) # 0)))

op_boolor(k, s) ==
    IF Len(s) < 2 THEN R("False", s)
    ELSE R("True", Append(Pop2(s),
               Flag(decode_num(Elem1(s)) # 0 \/ decode_num(Elem2(s)) # 0)))

op_numequal(k, s) ==
    IF Len(s) < 2 THEN R("False", s)
    ELSE R("True", Append(Pop2(s),
               Flag(decode_num(Elem1(s)) = decode_num(Elem2(s)))))

op_numequalverify(k, s) ==
    LET a == op_numequal(k, s)
    IN  IF a.ret = "True" THEN op_verify(k, a.stack) ELSE a

op_numnotequal(k, s) ==
    IF Len(s) < 2 THEN R("False", s)
    ELSE R("True", Append(Pop2(s),
               Flag(decode_num(Elem1(s)) # decode_num(Elem2(s)))))

op_lessthan(k, s) ==
    IF Len(s) < 2 THEN R("False", s)
    ELSE R("True", Append(Pop2(s),
               Flag(decode_num(Elem2(s)) < decode_num(Elem1(s)))))

op_greaterthan(k, s) ==
    IF Len(s) < 2 THEN R("False", s)
    ELSE R("True", Append(Pop2(s),
               Flag(decode_num(Elem2(s)) > decode_num(Elem1(s)))))

op_lessthanorequal(k, s) ==
    IF Len(s) < 2 THEN R("False", s)
    ELSE R("True", Append(Pop2(s),
               Flag(decode_num(Elem2(s)) <= decode_num(Elem1(s)))))

op_greaterthanorequal(k, s) ==
    IF Len(s) < 2 THEN R("False", s)
    ELSE R("True", Append(Pop2(s),
               Flag(decode_num(Elem2(s)) >= decode_num(Elem1(s)))))

op_min(k, s) ==
    IF Len(s) < 2 THEN R("False", s)
    ELSE R("True", Append(Pop2(s),
               encode_num(Min2(decode_num(Elem1(s)), decode_num(Elem2(s))))))

op_max(k, s) ==
    IF Len(s) < 2 THEN R("False", s)
    ELSE R("True", Append(Pop2(s),
               encode_num(Max2(decode_num(Elem1(s)), decode_num(Elem2(s))))))

op_within(k, s) ==
    IF Len(s) < 3 THEN R("False", s)
    ELSE LET maximum == decode_num(s[Len(s)])
             minimum == decode_num(s[Len(s) - 1])
             element == decode_num(s[Len(s) - 2])
         IN  R("True", Append(SubSeq(s, 1, Len(s) - 3),
                   Flag(element >= minimum /\ element < maximum)))

op_ripemd160(k, s) ==
    IF Len(s) < 1 THEN R("False", s)
    ELSE R("True", Append(Front(s), ripemd160(Top(s))))

op_sha1(k, s) ==
    IF Len(s) < 1 THEN R("False", s)
    ELSE R("True", Append(Front(s), sha1(Top(s))))

op_sha256(k, s) ==
    IF Len(s) < 1 THEN R("False", s)
    ELSE R("True", Append(Front(s), sha256(Top(s))))

op_hash160(k, s) ==
    IF Len(s) < 1 THEN R("False", s)
    ELSE R("True", Append(Front(s), hash160(Top(s))))

op_hash256(k, s) ==
    IF Len(s) < 1 THEN R("False", s)
    ELSE R("True", Append(Front(s), hash256(Top(s))))

\* op_checksig: sec and der are popped, then the try block looks up the
\* global name S256Point, which op.py neither defines nor imports: the
\* NameError is not among the exceptions the except clause catches
op_checksig(k, s, zz) ==
    IF Len(s) < 2 THEN R("False", s)
    ELSE R("NameError", Pop2(s))

op_checksigverify(k, s, zz) ==
    LET a == op_checksig(k, s, zz)
    IN  IF a.ret = "True" THEN op_verify(k, a.stack) ELSE a

op_checkmultisig(k, s, zz) == R("NotImplementedError", s)

op_checkmultisigverify(k, s, zz) ==
    LET a == op_checkmultisig(k, s, zz)
    IN  IF a.ret = "True" THEN op_verify(k, a.stack) ELSE a

(***************************************************************************)
(* The locktime handlers compare numbers of 32 bits and more, beyond the   *)
(* range of the integers of TLC:     such a number n >= 0 is held as        *)
(* [hi, lo] with n = hi * 65536 + lo and 0 <= lo < 65536.                  *)
(***************************************************************************)
W(hi, lo) == [hi |-> hi, lo |-> lo]

WLess(a, b) == a.hi < b.hi \/ (a.hi = b.hi /\ a.lo < b.lo)

\* n & (1 << b) != 0, for 16 <= b
WBit(a, b) == (a.hi \div (2 ^ (b - 16))) % 2

RECURSIVE LittleEndianValue(_)
LittleEndianValue(bs) ==
    IF bs = <<>> THEN 0 ELSE bs[1] + 256 * LittleEndianValue(Tail(bs))

\* decode_num for an element of up to 5 bytes: the sign and the magnitude
DecodeWide(element) ==
    IF element = <<>> THEN [neg |-> FALSE, hi |-> 0, lo |-> 0]
    ELSE LET n == Len(element)
             mag == [element EXCEPT ![n] = element[n] % 128]
             hi == LittleEndianValue(SubSeq(mag, 3, n))
             lo == LittleEndianValue(SubSeq(mag, 1, Min2(2, n)))
         IN  [neg |-> element[n] >= 128 /\ (hi # 0 \/ lo # 0),
              hi |-> hi, lo |-> lo]

op_checklocktimeverify(k, s, locktime, sequence) ==
    IF sequence = W(65535, 65535) THEN R("False", s)
    ELSE IF Len(s) < 1 THEN R("False", s)
    ELSE LET element == DecodeWide(Top(s))
         IN  IF element.neg THEN R("False", s)
             ELSE IF WLess(element, W(7629, 25856))
                     /\ WLess(W(7629, 25856), locktime)
                  THEN R("False", s)
             ELSE IF WLess(locktime, element) THEN R("False", s)
             ELSE R("True", s)

op_checksequenceverify(k, s, version, sequence) ==
    IF WBit(sequence, 31) = 1 THEN R("False", s)
    ELSE IF Len(s) < 1 THEN R("False", s)
    ELSE LET element == DecodeWide(Top(s))
         IN  IF element.neg THEN R("False", s)
             ELSE IF WBit(element, 31) = 1
                  THEN IF version < 2 THEN R("False", s)
                       ELSE IF WBit(sequence, 31) = 1 THEN R("False", s)
                       ELSE IF WBit(element, 22) # WBit(sequence, 22)
                            THEN R("False", s)
                       ELSE IF element.lo > sequence.lo
                            THEN R("False", s)
                       ELSE R("True", s)
                  ELSE R("True", s)

(***************************************************************************)
(* op.py: op_if / op_notif.  ik is the kind of the container of items.     *)
(***************************************************************************)
IsOp(item, n) == IsInt(item) /\ item.int = n

\* the while loop of op_if: the commands still to scan, the two branches
\* collected so far, whether current_array is false_items, and
\* num_endifs_needed
RECURSIVE IfScan(_, _, _, _, _)
IfScan(items, true_items, false_items, inFalse, need) ==
    IF items = <<>>
    THEN [found |-> FALSE, items |-> items,
          true_items |-> true_items, false_items |-> false_items]
    ELSE LET item == Head(items)
             rest == Tail(items)
             keepT == IF inFalse THEN true_items ELSE Append(true_items, item)
             keepF == IF inFalse THEN Append(false_items, item) ELSE false_items
         IN  IF IsOp(item, 99) \/ IsOp(item, 100)
             THEN IfScan(rest, keepT, keepF, inFalse, need + 1)
             ELSE IF need = 1 /\ IsOp(item, 103)
             THEN IfScan(rest, true_items, false_items, TRUE, need)
             ELSE IF IsOp(item, 104)
             THEN IF need = 1
                  THEN [found |-> TRUE, items |-> rest,
                        true_items |-> true_items, false_items |-> false_items]
                  ELSE IfScan(rest, keepT, keepF, inFalse, need - 1)
             ELSE IfScan(rest, keepT, keepF, inFalse, need)

\* items.pop(0) takes an argument: a deque raises TypeError on the first
\* iteration, before anything was removed
op_if(k, s, ik, items, notif) ==
    IF Len(s) < 1 THEN [ret |-> "False", stack |-> s, items |-> items]
    ELSE IF items = <<>> THEN [ret |-> "False", stack |-> s, items |-> items]
    ELSE IF ik = "deque" THEN [ret |-> "TypeError", stack |-> s, items |-> items]
    ELSE LET sc == IfScan(items, <<>>, <<>>, FALSE, 1)
         IN  IF ~sc.found
             THEN [ret |-> "False", stack |-> s, items |-> sc.items]
             ELSE IF (decode_num(Top(s)) = 0) = notif
                  THEN [ret |-> "True", stack |-> Front(s),
                        items |-> sc.true_items \o sc.items]
                  ELSE [ret |-> "True", stack |-> Front(s),
                        items |-> sc.false_items \o sc.items]

op_notif(k, s, ik, items) == op_if(k, s, ik, items, TRUE)

(***************************************************************************)
(* op.py: OP_CODE_FUNCTIONS, and script.py: the call Script.evaluate makes *)
(* for an opcode of the table.                                             *)
(***************************************************************************)
OP_CODE_FUNCTIONS ==
    {0, 79} \cup (81..97) \cup {99, 100} \cup (105..125) \cup {130, 135, 136,
     139, 140} \cup (143..148) \cup (154..170) \cup (172..185)

\* the handlers that take the stack alone
StackOp(cmd, k, s) ==
    CASE cmd = 0 -> op_0(k, s)
      [] cmd = 79 -> op_1negate(k, s)
      [] cmd \in 81..96 -> op_n(k, s, cmd - 80)
      [] cmd \in {97, 176} \cup (179..185) -> op_nop(k, s)
      [] cmd = 105 -> op_verify(k, s)
      [] cmd = 106 -> op_return(k, s)
      [] cmd = 109 -> op_2drop(k, s)
      [] cmd = 110 -> op_2dup(k, s)
      [] cmd = 111 -> op_3dup(k, s)
      [] cmd = 112 -> op_2over(k, s)
      [] cmd = 113 -> op_2rot(k, s)
      [] cmd = 114 -> op_2swap(k, s)
      [] cmd = 115 -> op_ifdup(k, s)
      [] cmd = 116 -> op_depth(k, s)
      [] cmd = 117 -> op_drop(k, s)
      [] cmd = 118 -> op_dup(k, s)
      [] cmd = 119 -> op_nip(k, s)
      [] cmd = 120 -> op_over(k, s)
      [] cmd = 121 -> op_pick(k, s)
      [] cmd = 122 -> op_roll(k, s)
      [] cmd = 123 -> op_rot(k, s)
      [] cmd = 124 -> op_swap(k, s)
      [] cmd = 125 -> op_tuck(k, s)
      [] cmd = 130 -> op_size(k, s)
      [] cmd = 135 -> op_equal(k, s)
      [] cmd = 136 -> op_equalverify(k, s)
      [] cmd = 139 -> op_1add(k, s)
      [] cmd = 140 -> op_1sub(k, s)
      [] cmd = 143 -> op_negate(k, s)
      [] cmd = 144 -> op_abs(k, s)
      [] cmd = 145 -> op_not(k, s)
      [] cmd = 146 -> op_0notequal(k, s)
      [] cmd = 147 -> op_add(k, s)
      [] cmd = 148 -> op_sub(k, s)
      [] cmd = 154 -> op_booland(k, s)
      [] cmd = 155 -> op_boolor(k, s)
      [] cmd = 156 -> op_numequal(k, s)
      [] cmd = 157 -> op_numequalverify(k, s)
      [] cmd = 158 -> op_numnotequal(k, s)
      [] cmd = 159 -> op_lessthan(k, s)
      [] cmd = 160 -> op_greaterthan(k, s)
      [] cmd = 161 -> op_lessthanorequal(k, s)
      [] cmd = 162 -> op_greaterthanorequal(k, s)
      [] cmd = 163 -> op_min(k, s)
      [] cmd = 164 -> op_max(k, s)
      [] cmd = 165 -> op_within(k, s)
      [] cmd = 166 -> op_ripemd160(k, s)
      [] cmd = 167 -> op_sha1(k, s)
      [] cmd = 168 -> op_sha256(k, s)
      [] cmd = 169 -> op_hash160(k, s)
      [] cmd = 170 -> op_hash256(k, s)
      \* op_checklocktimeverify(stack) and op_checksequenceverify(stack):
      \* two required positional arguments are missing
      [] cmd \in {177, 178} -> R("TypeError", s)

SigOp(cmd, k, s, zz) ==
    CASE cmd = 172 -> op_checksig(k, s, zz)
      [] cmd = 173 -> op_checksigverify(k, s, zz)
      [] cmd = 174 -> op_checkmultisig(k, s, zz)
      [] cmd = 175 -> op_checkmultisigverify(k, s, zz)

AltOp(cmd, k, s, alt) ==
    IF cmd = 107 THEN op_toaltstack(k, s, alt) ELSE op_fromaltstack(k, s, alt)

IfOp(cmd, k, s, ik, items) ==
    IF cmd = 99 THEN op_if(k, s, ik, items, FALSE) ELSE op_notif(k, s, ik, items)

\* operation(...) as Script.evaluate calls it for an opcode of the table:
\* its outcome and the stack, alt stack and commands it leaves
Operation(cmd, k, s, alt, ik, items, zz) ==
    IF cmd \in {99, 100}
    THEN LET r == IfOp(cmd, k, s, ik, items)
         IN  [ret |-> r.ret, stack |-> r.stack, alt |-> alt, items |-> r.items]
    ELSE IF cmd \in {107, 108}
    THEN LET r == AltOp(cmd, k, s, alt)
         IN  [ret |-> r.ret, stack |-> r.stack, alt |-> r.alt, items |-> items]
    ELSE IF cmd \in 172..175
    THEN LET r == SigOp(cmd, k, s, zz)
         IN  [ret |-> r.ret, stack |-> r.stack, alt |-> alt, items |-> items]
    ELSE LET r == StackOp(cmd, k, s)
         IN  [ret |-> r.ret, stack |-> r.stack, alt |-> alt, items |-> items]

(***************************************************************************)
(* helper.py: varints, and script.py: Script.serialize and                 *)
(* Script.deserialize.  A function that may raise returns [exc, val]: the  *)
(* exception raised ("none" when it returned) and the value returned.  A   *)
(* stream is the sequence of the bytes not read yet; read(n) returns up to *)
(* n of them, fewer at the end of the stream.                              *)
(***************************************************************************)
Ok(v) == [exc |-> "none", val |-> v]

Exc(e) == [exc |-> e, val |-> <<>>]

\* i.to_bytes(n, 'little') for 0 <= i < 256 ^ n
RECURSIVE ToBytesLittle(_, _)
ToBytesLittle(i, n) ==
    IF n = 0 THEN <<>> ELSE <<i % 256>> \o ToBytesLittle(i \div 256, n - 1)

\* the lengths met here are below 2 ^ 31, so the 8-byte form and the
\* "integer too large" error are out of reach
encode_varint(i) ==
    IF i < 0 THEN Exc("ValueError")
    ELSE IF i < 253 THEN Ok(<<i>>)
    ELSE IF i < 65536 THEN Ok(<<253>> \o ToBytesLittle(i, 2))
    ELSE Ok(<<254>> \o ToBytesLittle(i, 4))

StreamRead(s, n) == SubSeq(s, 1, Min2(n, Len(s)))

StreamSkip(s, n) == SubSeq(s, Min2(n, Len(s)) + 1, Len(s))

\* read_varint: the value read and the stream left; s.read(1)[0] raises
\* IndexError at the end of the stream
read_varint(s) ==
    IF s = <<>> THEN [exc |-> "IndexError", val |-> 0, rest |-> s]
    ELSE LET i == s[1]
             r == Tail(s)
             n == IF i = 253 THEN 2 ELSE IF i = 254 THEN 4
                  ELSE IF i = 255 THEN 8 ELSE 0
         IN  IF n = 0 THEN [exc |-> "none", val |-> i, rest |-> r]
             ELSE [exc |-> "none",
                   val |-> LittleEndianValue(StreamRead(r, n)),
                   rest |-> StreamSkip(r, n)]

\* the bytes Script.serialize writes before an element of this length
PushPrefixBigEndian(length) ==
    IF length <= 75 THEN Ok(<<length>>)
    ELSE IF length < 256 THEN Ok(<<76, length>>)
    ELSE IF length <= 520 THEN Ok(<<77, length \div 256, length % 256>>)
    ELSE Exc("ValueError")

PushPrefixOffByOne(length) ==
    IF length < 75 THEN Ok(<<length>>)
    ELSE IF length < 256 THEN Ok(<<76, length>>)
    ELSE IF length <= 520 THEN Ok(<<77>> \o ToBytesLittle(length, 2))
    ELSE Exc("ValueError")

PushPrefix(length) ==
    IF length <= 75 THEN Ok(<<length>>)
    ELSE IF length < 256 THEN Ok(<<76>> \o ToBytesLittle(length, 1))
    ELSE IF length <= 520 THEN Ok(<<77>> \o ToBytesLittle(length, 2))
    ELSE Exc("ValueError")

\* the for loop of Script.serialize: cmd.to_bytes(1, 'little') raises
\* OverflowError for an int outside 0..255
RECURSIVE SerializeCmds(_, _)
SerializeCmds(cs, res) ==
    IF cs = <<>> THEN Ok(res)
    ELSE LET cmd == Head(cs)
         IN  IF IsInt(cmd)
             THEN IF cmd.int < 0 \/ cmd.int > 255 THEN Exc("OverflowError")
                  ELSE SerializeCmds(Tail(cs), res \o <<cmd.int>>)
             ELSE LET pre == PushPrefix(Len(cmd.bytes))
                  IN  IF pre.exc # "none" THEN pre
                      ELSE SerializeCmds(Tail(cs), res \o pre.val \o cmd.bytes)

serialize(cs) ==
    LET body == SerializeCmds(cs, <<>>)
    IN  IF body.exc # "none" THEN body
        ELSE Ok(encode_varint(Len(body.val)).val \o body.val)

\* the while loop of Script.deserialize
RECURSIVE DeserializeCmds(_, _, _, _)
DeserializeCmds(s, byte_ct, length, cs) ==
    IF byte_ct >= length
    THEN IF byte_ct # length THEN Exc("SyntaxError") ELSE Ok(cs)
    ELSE IF s = <<>> THEN Exc("IndexError")
    ELSE LET current_byte == s[1]
             r == Tail(s)
         IN  IF current_byte >= 1 /\ current_byte <= 75
             THEN DeserializeCmds(StreamSkip(r, current_byte),
                      byte_ct + 1 + current_byte, length,
                      Append(cs, El(StreamRead(r, current_byte))))
             ELSE IF current_byte = 76
             THEN LET data_length == LittleEndianValue(StreamRead(r, 1))
                      d == StreamSkip(r, 1)
                  IN  DeserializeCmds(StreamSkip(d, data_length),
                          byte_ct + 1 + data_length + 1, length,
                          Append(cs, El(StreamRead(d, data_length))))
             ELSE IF current_byte = 77
             THEN LET data_length == LittleEndianValue(StreamRead(r, 2))
                      d == StreamSkip(r, 2)
                  IN  DeserializeCmds(StreamSkip(d, data_length),
                          byte_ct + 1 + data_length + 2, length,
                          Append(cs, El(StreamRead(d, data_length))))
             ELSE DeserializeCmds(r, byte_ct + 1, length,
                      Append(cs, Op(current_byte)))

deserialize(s) ==
    LET v == read_varint(s)
    IN  IF v.exc # "none" THEN Exc(v.exc)
        ELSE DeserializeCmds(v.rest, 0, v.val, <<>>)

(***************************************************************************)
(* ecc.py: the curve.  SECP256K1 is y^2 = x^3 + 7 over the field of        *)
(* P = 2^256 - 2^32 - 977 elements, with a group of prime order N < P.     *)
(* The model keeps the equation and every line of the arithmetic, over     *)
(* the field of 43 elements: there the curve has a group of prime order    *)
(* 31 < 43, no point with x = 0 or y = 0, and 43 = 3 (mod 4), as for       *)
(* SECP256K1.  A field element is its num; a point is <<x, y>> and the     *)
(* point at infinity (None, None) is <<>>.                                 *)
(***************************************************************************)
P == 43

A == 0

B == 7

N == 31

Gx == 2

Gy == 12

\* pow(base, exponent, modulus)
RECURSIVE ModPow(_, _, _)
ModPow(base, exponent, modulus) ==
    IF exponent = 0 THEN 1 % modulus
    ELSE LET half == ModPow(base, exponent \div 2, modulus)
             sq == (half * half) % modulus
         IN  IF exponent % 2 = 1 THEN (sq * base) % modulus ELSE sq

\* FinFieldElem.__pow__
FieldPow(num, exponent) == ModPow(num, exponent % (P - 1), P)

\* FinFieldElem.__truediv__
FieldDiv(num, other) == (num * ModPow(other, P - 2, P)) % P

\* S256FieldElem.sqrt
sqrt(num) == FieldPow(num, (P + 1) \div 4)

Infinity == <<>>

\* ECPoint.__init__: the test that the point is on the curve
OnCurve(x, y) == FieldPow(y, 2) = (FieldPow(x, 3) + A * x + B) % P

\* ECPoint.__add__
PointAdd(p1, p2) ==
    IF p1 = Infinity THEN p2
    ELSE IF p2 = Infinity THEN p1
    ELSE IF p1 = p2
    THEN IF p1[2] = (0 * p1[1]) % P THEN Infinity
         ELSE LET slope == FieldDiv((3 * FieldPow(p1[1], 2) + A) % P,
                                    (2 * p1[2]) % P)
                  x == (FieldPow(slope, 2) - 2 * p1[1]) % P
                  y == (slope * ((p1[1] - x) % P) - p1[2]) % P
              IN  <<x, y>>
    ELSE IF p1[1] = p2[1] THEN Infinity
    ELSE LET slope == FieldDiv((p2[2] - p1[2]) % P, (p2[1] - p1[1]) % P)
             x == (FieldPow(slope, 2) - p1[1] - p2[1]) % P
             y == (slope * ((p1[1] - x) % P) - p1[2]) % P
         IN  <<x, y>>

\* the loop of ECPoint.__rmul__
RECURSIVE DoubleAndAdd(_, _, _)
DoubleAndAdd(coef, doubling, product) ==
    IF coef > 0
    THEN DoubleAndAdd(coef \div 2, PointAdd(doubling, doubling),
             IF coef % 2 = 1 THEN PointAdd(product, doubling) ELSE product)
    ELSE product

\* S256Point.__rmul__: coefficient * point
PointMul(coefficient, point) == DoubleAndAdd(coefficient % N, point, Infinity)

G == <<Gx, Gy>>

\* every point of the curve, infinity among them
S256Points ==
    {Infinity} \cup
        {pt \in (0..(P - 1)) \X (0..(P - 1)) : OnCurve(pt[1], pt[2])}

(***************************************************************************)
(* ecc.py: FinFieldElem and ECPoint over any field.  A field element is    *)
(* [num, prime], the two attributes of the object; None is a value that    *)
(* is no field element.  A point is [x, y, a, b] with x and y a field      *)
(* element or None, and a and b field elements.                            *)
(***************************************************************************)
None == [num |-> 0, prime |-> 0]

\* FinFieldElem.__init__
FinFieldElem(num, prime) ==
    IF prime < 3 THEN Exc("ValueError")
    ELSE IF num >= prime \/ num < 0 THEN Exc("ValueError")
    ELSE Ok([num |-> num, prime |-> prime])

\* type(other) is not self.__class__ or self.prime != other.prime
OtherField(self, other) == other = None \/ self.prime # other.prime

\* FinFieldElem.__eq__
FinFieldElem_eq(self, other) ==
    IF other = None THEN FALSE
    ELSE self.num = other.num /\ self.prime = other.prime

\* FinFieldElem.__ne__
FinFieldElem_ne(self, other) ==
    IF other = None THEN TRUE
    ELSE self.num # other.num \/ self.prime # other.prime

\* FinFieldElem.__add__
FinFieldElem_add(self, other) ==
    IF OtherField(self, other) THEN Exc("TypeError")
    ELSE FinFieldElem((self.num + other.num) % self.prime, self.prime)

\* FinFieldElem.__sub__
FinFieldElem_sub(self, other) ==
    IF OtherField(self, other) THEN Exc("TypeError")
    ELSE FinFieldElem((self.num - other.num) % self.prime, self.prime)

\* FinFieldElem.__mul__
FinFieldElem_mul(self, other) ==
    IF OtherField(self, other) THEN Exc("TypeError")
    ELSE FinFieldElem((self.num * other.num) % self.prime, self.prime)

\* FinFieldElem.__pow__
FinFieldElem_pow(self, exponent) ==
    LET n == exponent % (self.prime - 1)
    IN  FinFieldElem(ModPow(self.num, n, self.prime), self.prime)

\* FinFieldElem.__truediv__ with the exponent p - 1 in the place of p - 2
FinFieldElem_truediv_fermat(self, other) ==
    IF OtherField(self, other) THEN Exc("TypeError")
    ELSE FinFieldElem(
             (self.num * ModPow(other.num, other.prime - 1, other.prime))
                 % self.prime,
             self.prime)

\* FinFieldElem.__truediv__
FinFieldElem_truediv(self, other) ==
    IF OtherField(self, other) THEN Exc("TypeError")
    ELSE FinFieldElem(
             (self.num * ModPow(other.num, other.prime - 2, other.prime))
                 % self.prime,
             self.prime)

\* FinFieldElem.__rmul__: coefficient * self
FinFieldElem_rmul(coefficient, self) ==
    FinFieldElem((self.num * coefficient) % self.prime, self.prime)

\* the value of an expression of two operands that may have raised: the
\* left operand is evaluated first
Lift2(F(_, _), left, right) ==
    IF left.exc # "none" THEN left
    ELSE IF right.exc # "none" THEN right
    ELSE F(left.val, right.val)

\* base ** exponent for a base that may have raised
LiftPow(base, exponent) ==
    IF base.exc # "none" THEN base ELSE FinFieldElem_pow(base.val, exponent)

\* coefficient * e for an integer coefficient and e a field element or
\* None: neither int nor None has a product for the two
Times(coefficient, e) ==
    IF e = None THEN Exc("TypeError") ELSE FinFieldElem_rmul(coefficient, e)

\* x ** 3 + a * x + b
CurveRhs(x, a, b) ==
    Lift2(FinFieldElem_add,
          Lift2(FinFieldElem_add, FinFieldElem_pow(x, 3),
                FinFieldElem_mul(a, x)),
          Ok(b))

\* ECPoint.__init__
ECPoint(x, y, a, b) ==
    IF x # None /\ y # None
    THEN LET rhs == CurveRhs(x, a, b)
         IN  IF rhs.exc # "none" THEN rhs
             ELSE IF FinFieldElem_ne(FinFieldElem_pow(y, 2).val, rhs.val)
             THEN Exc("ValueError")
             ELSE Ok([x |-> x, y |-> y, a |-> a, b |-> b])
    ELSE Ok([x |-> x, y |-> y, a |-> a, b |-> b])

\* u == v for u and v a field element or None
CoordEq(u, v) == IF u = None THEN v = None ELSE FinFieldElem_eq(u, v)

\* ECPoint.__eq__
ECPoint_eq(self, other) ==
    /\ CoordEq(self.x, other.x)
    /\ CoordEq(self.y, other.y)
    /\ FinFieldElem_eq(self.a, other.a)
    /\ FinFieldElem_eq(self.b, other.b)

\* self.__class__(x, y, self.a, self.b) for the x and y computed
NewECPoint(x, y, a, b) ==
    IF x.exc # "none" THEN x
    ELSE IF y.exc # "none" THEN y
    ELSE ECPoint(x.val, y.val, a, b)

\* ECPoint.__add__, the tangent: ecc.py:383-386
AddTangent(self) ==
    LET slope == Lift2(FinFieldElem_truediv,
                       Lift2(FinFieldElem_add,
                             Times(3, FinFieldElem_pow(self.x, 2).val),
                             Ok(self.a)),
                       Times(2, self.y))
        x == Lift2(FinFieldElem_sub, LiftPow(slope, 2), Times(2, self.x))
        y == Lift2(FinFieldElem_sub,
                   Lift2(FinFieldElem_mul, slope,
                         Lift2(FinFieldElem_sub, Ok(self.x), x)),
                   Ok(self.y))
    IN  NewECPoint(x, y, self.a, self.b)

\* ECPoint.__add__, the line through two points: ecc.py:392-395
AddChord(self, other) ==
    LET slope == Lift2(FinFieldElem_truediv,
                       FinFieldElem_sub(other.y, self.y),
                       FinFieldElem_sub(other.x, self.x))
        x == Lift2(FinFieldElem_sub,
                   Lift2(FinFieldElem_sub, LiftPow(slope, 2), Ok(self.x)),
                   Ok(other.x))
        y == Lift2(FinFieldElem_sub,
                   Lift2(FinFieldElem_mul, slope,
                         Lift2(FinFieldElem_sub, Ok(self.x), x)),
                   Ok(self.y))
    IN  NewECPoint(x, y, self.a, self.b)

\* ECPoint.__add__
ECPoint_add(self, other) ==
    IF \/ FinFieldElem_ne(self.a, other.a)
       \/ FinFieldElem_ne(self.b, other.b)
    THEN Exc("TypeError")
    ELSE IF self.x = None THEN Ok(other)
    ELSE IF other.x = None THEN Ok(self)
    ELSE IF ECPoint_eq(self, other)
    THEN IF CoordEq(self.y, FinFieldElem_rmul(0, self.x).val)
         THEN ECPoint(None, None, self.a, self.b)
         ELSE AddTangent(self)
    ELSE IF FinFieldElem_eq(self.x, other.x)
    THEN ECPoint(None, None, self.a, self.b)
    ELSE AddChord(self, other)

\* the loop of ECPoint.__rmul__: ecc.py:413-417
RECURSIVE RMulLoop(_, _, _)
RMulStep(coef, product, doubling) ==
    IF product.exc # "none" THEN product
    ELSE IF doubling.exc # "none" THEN doubling
    ELSE RMulLoop(coef \div 2, doubling.val, product.val)

RMulLoop(coef, doubling, product) ==
    IF coef > 0
    THEN RMulStep(coef,
                  IF coef % 2 = 1 THEN ECPoint_add(product, doubling)
                  ELSE Ok(product),
                  ECPoint_add(doubling, doubling))
    ELSE Ok(product)

\* ECPoint.__rmul__: coefficient * self
ECPoint_rmul(coefficient, self) ==
    LET product == ECPoint(None, None, self.a, self.b)
    IN  RMulLoop(coefficient, self, product.val)

(***************************************************************************)
(* Python integers of any size.  Where a number may be wider than the      *)
(* integers of TLC it is held as its bytes, most significant first         *)
(* (int.to_bytes(n, 'big')), or as its bits.                               *)
(***************************************************************************)
\* i.to_bytes(n, 'big') for 0 <= i < 256 ^ n
RECURSIVE ToBytesBig(_, _)
ToBytesBig(i, n) ==
    IF n = 0 THEN <<>> ELSE Append(ToBytesBig(i \div 256, n - 1), i % 256)

\* int.from_bytes(bs, 'big')
RECURSIVE FromBytesBig(_)
FromBytesBig(bs) ==
    IF bs = <<>> THEN 0 ELSE 256 * FromBytesBig(Front(bs)) + bs[Len(bs)]

\* bs.lstrip(b'\x00'), and the same for bits
StripZeros(bs) ==
    LET nonzero == {i \in 1..Len(bs) : bs[i] # 0}
    IN  IF nonzero = {} THEN <<>>
        ELSE SubSeq(bs, CHOOSE i \in nonzero : \A j \in nonzero : i <= j,
                    Len(bs))

\* a < b, for two numbers held as bytes or as bits
BigLess(a, b) ==
    LET x == StripZeros(a)
        y == StripZeros(b)
    IN  \/ Len(x) < Len(y)
        \/ /\ Len(x) = Len(y)
           /\ \E i \in 1..Len(x) :
                 /\ x[i] < y[i]
                 /\ \A j \in 1..(i - 1) : x[j] = y[j]

\* the bytes of a and b from position i on, a below b
SuffixLess(a, b, i) ==
    \E j \in i..Len(a) : a[j] < b[j] /\ \A h \in i..(j - 1) : a[h] = b[h]

\* a - b for a >= b, both of n bytes: a byte borrows from the one before
\* it when what follows it in a is below what follows it in b
BigSub(a, b) ==
    [i \in 1..Len(a) |->
        (a[i] - b[i] - (IF SuffixLess(a, b, i + 1) THEN 1 ELSE 0)) % 256]

\* the bits of the bytes, most significant first
RECURSIVE BitsOfByte(_, _)
BitsOfByte(b, n) ==
    IF n = 0 THEN <<>> ELSE Append(BitsOfByte(b \div 2, n - 1), b % 2)

RECURSIVE BitsOf(_)
BitsOf(bs) ==
    IF bs = <<>> THEN <<>> ELSE BitsOfByte(bs[1], 8) \o BitsOf(Tail(bs))

\* bits + 1: the last 0 becomes 1 and the 1s behind it become 0
BitsInc(bits) ==
    LET zero == {i \in 1..Len(bits) : bits[i] = 0}
        last == CHOOSE i \in zero : \A j \in zero : j <= i
    IN  IF zero = {} THEN <<1>> \o [i \in 1..Len(bits) |-> 0]
        ELSE [i \in 1..Len(bits) |->
                 IF i < last THEN bits[i] ELSE IF i = last THEN 1 ELSE 0]

\* the significant bits of a Python float
MantissaBits == 53

\* float(i): the nearest number of MantissaBits significant bits, a tie
\* going to the even one; as bits
FloatOf(bits) ==
    LET sig == StripZeros(bits)
        m == SubSeq(sig, 1, MantissaBits)
        rest == SubSeq(sig, MantissaBits + 1, Len(sig))
        zeros == [i \in 1..Len(rest) |-> 0]
        above == rest[1] = 1 /\ \E i \in 2..Len(rest) : rest[i] = 1
        tie == rest[1] = 1 /\ \A i \in 2..Len(rest) : rest[i] = 0
    IN  IF Len(sig) <= MantissaBits THEN sig
        ELSE IF above \/ (tie /\ m[MantissaBits] = 1) THEN BitsInc(m) \o zeros
        ELSE m \o zeros

\* s > n / 2 at ecc.py:894, s and n held as bytes: n / 2 is the float
\* nearest to the quotient, and halving a float is exact
AboveHalf(s, n) == BigLess(FloatOf(BitsOf(n)), Append(BitsOf(s), 0))

\* the last statements of PrivateKey.sign: the signature gets n - s when
\* s > n / 2
LowS(s, n) == IF AboveHalf(s, n) THEN BigSub(n, s) ELSE s

(***************************************************************************)
(* ecc.py: PrivateKey and PublicKey.  A signature is [r, s].               *)
(***************************************************************************)
\* SECP256K1.N itself, as 32 bytes
SECP256K1_N ==
    <<255, 255, 255, 255, 255, 255, 255, 255,
      255, 255, 255, 255, 255, 255, 255, 254,
      186, 174, 220, 230, 175, 72, 160, 59,
      191, 210, 94, 140, 208, 54, 65, 65>>

\* PrivateKey.__init__: self.point
PrivateKeyPoint(secret) == PointMul(secret, G)

\* what the loop of PrivateKey.deterministic_k can return: a candidate
\* with candidate >= 1 and candidate < N, the HMAC digests it is read from
\* being arbitrary
deterministic_k == 1..(N - 1)

\* PrivateKey.sign, k being what deterministic_k(z) returned
sign(secret, zz, k) ==
    LET r == PointMul(k, G)[1]
        k_inv == ModPow(k, N - 2, N)
        s == ((zz + r * secret) * k_inv) % N
    IN  [r |-> r,
         s |-> FromBytesBig(LowS(ToBytesBig(s, 32), ToBytesBig(N, 32)))]

\* PublicKey.verify without the upper limit on r
verify_any_r(point, zz, sig) ==
    IF ~(sig.r > 0 /\ sig.s > 0 /\ sig.s < N) THEN FALSE
    ELSE LET s_inv == ModPow(sig.s, N - 2, N)
             u == (zz * s_inv) % N
             v == (sig.r * s_inv) % N
             RR == PointAdd(PointMul(u, G), PointMul(v, point))
         IN  IF RR = PointMul(0, G) THEN FALSE ELSE RR[1] = sig.r

\* PublicKey.verify
verify(point, zz, sig) ==
    IF ~(sig.r > 0 /\ sig.r < N /\ sig.s > 0 /\ sig.s < N) THEN FALSE
    ELSE LET s_inv == ModPow(sig.s, N - 2, N)
             u == (zz * s_inv) % N
             v == (sig.r * s_inv) % N
             RR == PointAdd(PointMul(u, G), PointMul(v, point))
         IN  IF RR = PointMul(0, G) THEN FALSE ELSE RR[1] = sig.r

\* PublicKey.sec: self.y.num raises AttributeError on the point at
\* infinity, whose y is None
sec(point, compressed) ==
    IF point = Infinity THEN Exc("AttributeError")
    ELSE IF compressed
    THEN IF point[2] % 2 = 0 THEN Ok(<<2>> \o ToBytesBig(point[1], 32))
         ELSE Ok(<<3>> \o ToBytesBig(point[1], 32))
    ELSE Ok(<<4>> \o ToBytesBig(point[1], 32) \o ToBytesBig(point[2], 32))

\* S256Point(x, y) on two numbers: FinFieldElem.__init__ and
\* ECPoint.__init__ raise ValueError outside the field and off the curve
NewPoint(x, y) ==
    IF x >= P \/ x < 0 \/ y >= P \/ y < 0 THEN Exc("ValueError")
    ELSE IF ~OnCurve(x, y) THEN Exc("ValueError")
    ELSE Ok(<<x, y>>)

\* PublicKey.from_sec with the root sqrt returns, whatever the prefix
from_sec_first_root(sec_bin) ==
    LET x == FromBytesBig(SubSeq(sec_bin, 2, Min2(33, Len(sec_bin))))
    IN  IF sec_bin = <<>> THEN Exc("IndexError")
        ELSE IF sec_bin[1] \notin {2, 3, 4} THEN Exc("ValueError")
        ELSE IF x >= P THEN Exc("ValueError")
        ELSE IF sec_bin[1] = 4
        THEN NewPoint(x, FromBytesBig(SubSeq(sec_bin, 34, Min2(65, Len(sec_bin)))))
        ELSE NewPoint(x, sqrt((FieldPow(x, 3) + B) % P))

\* PublicKey.from_sec
from_sec(sec_bin) ==
    LET x == FromBytesBig(SubSeq(sec_bin, 2, Min2(33, Len(sec_bin))))
        alpha == (FieldPow(x, 3) + B) % P
        beta == sqrt(alpha)
        even_beta == IF beta % 2 = 0 THEN beta ELSE P - beta
        odd_beta == IF beta % 2 = 0 THEN P - beta ELSE beta
    IN  IF sec_bin = <<>> THEN Exc("IndexError")
        ELSE IF sec_bin[1] \notin {2, 3, 4} THEN Exc("ValueError")
        ELSE IF x >= P THEN Exc("ValueError")
        ELSE IF sec_bin[1] = 4
        THEN NewPoint(x, FromBytesBig(SubSeq(sec_bin, 34, Min2(65, Len(sec_bin)))))
        ELSE NewPoint(x, IF sec_bin[1] = 2 THEN even_beta ELSE odd_beta)

(***************************************************************************)
(* ecc.py: Signature.der and Signature.from_der, on numbers of any width:  *)
(* r and s are held as their bytes, most significant first, without        *)
(* leading zeros (0 is the empty sequence).                                *)
(***************************************************************************)
\* i.to_bytes(n, 'big') for i held as bytes: OverflowError when it does not
\* fit
PadBig(i, n) ==
    IF Len(i) > n THEN Exc("OverflowError")
    ELSE Ok([j \in 1..(n - Len(i)) |-> 0] \o i)

\* the body of the loop of Signature.der without the null byte added back
DerIntegerUnsigned(i) ==
    LET padded == PadBig(i, 32)
        bin == StripZeros(padded.val)
    IN  IF padded.exc # "none" THEN padded
        ELSE IF bin = <<>> THEN Exc("IndexError")
        ELSE Ok(<<2, Len(bin)>> \o bin)

\* the body of the loop of Signature.der: _bin[0] raises IndexError when
\* every byte was stripped
DerInteger(i) ==
    LET padded == PadBig(i, 32)
        bin == StripZeros(padded.val)
    IN  IF padded.exc # "none" THEN padded
        ELSE IF bin = <<>> THEN Exc("IndexError")
        ELSE IF bin[1] >= 128 THEN Ok(<<2, Len(bin) + 1, 0>> \o bin)
        ELSE Ok(<<2, Len(bin)>> \o bin)

\* Signature.der
der(sig) ==
    LET rbin == DerInteger(sig.r)
        sbin == DerInteger(sig.s)
    IN  IF PadBig(sig.r, 32).exc # "none" THEN PadBig(sig.r, 32)
        ELSE IF PadBig(sig.s, 32).exc # "none" THEN PadBig(sig.s, 32)
        ELSE IF rbin.exc # "none" THEN rbin
        ELSE IF sbin.exc # "none" THEN sbin
        ELSE Ok(<<48, Len(rbin.val) + Len(sbin.val)>> \o rbin.val \o sbin.val)

\* Signature.from_der: every s.read(1)[0] raises IndexError at the end of
\* the stream
from_der(signature_bin) ==
    LET bin == signature_bin
        rlength == bin[4]
        rbytes == StreamRead(StreamSkip(bin, 4), rlength)
        after == StreamSkip(bin, 4 + rlength)
        slength == after[2]
        sbytes == StreamRead(StreamSkip(after, 2), slength)
    IN  IF Len(bin) < 1 THEN Exc("IndexError")
        ELSE IF bin[1] # 48 THEN Exc("SyntaxError")
        ELSE IF Len(bin) < 2 THEN Exc("IndexError")
        ELSE IF bin[2] + 2 # Len(bin) THEN Exc("SyntaxError")
        ELSE IF Len(bin) < 3 THEN Exc("IndexError")
        ELSE IF bin[3] # 2 THEN Exc("SyntaxError")
        ELSE IF Len(bin) < 4 THEN Exc("IndexError")
        ELSE IF Len(after) < 1 THEN Exc("IndexError")
        ELSE IF after[1] # 2 THEN Exc("SyntaxError")
        ELSE IF Len(after) < 2 THEN Exc("IndexError")
        ELSE IF Len(bin) # 6 + rlength + slength THEN Exc("SyntaxError")
        ELSE Ok([r |-> StripZeros(rbytes), s |-> StripZeros(sbytes)])

(***************************************************************************)
(* helper.py: base 58.  A str is a sequence of characters; the number in   *)
(* between is held as its bytes, most significant first, without leading   *)
(* zeros, so that it is as wide as the input makes it.                     *)
(***************************************************************************)
BASE58_NUMERALS ==
    <<"1", "2", "3", "4", "5", "6", "7", "8", "9", "A", "B", "C", "D",
       "E", "F", "G", "H", "J", "K", "L", "M", "N", "P", "Q", "R", "S",
       "T", "U", "V", "W", "X", "Y", "Z", "a", "b", "c", "d", "e", "f",
       "g", "h", "i", "j", "k", "m", "n", "o", "p", "q", "r", "s", "t",
       "u", "v", "w", "x", "y", "z">>

\* the leading_null_bytes / leading_nulls loops: how many leading
\* elements of a sequence equal c
LeadingCount(seq, c) ==
    IF \A i \in 1..Len(seq) : seq[i] = c THEN Len(seq)
    ELSE (CHOOSE i \in 1..Len(seq) :
              seq[i] # c /\ \A j \in 1..(i - 1) : seq[j] = c) - 1

\* divmod(num, 58), by long division over the bytes of num from place i on
\* (the tests on remainder and quotient are never true: they have the two
\* computed at every place, as Python does, and not at the end)
RECURSIVE LongDivMod58(_, _, _, _)
LongDivMod58(num, i, quotient, remainder) ==
    IF i > Len(num) \/ remainder < 0 \/ Len(quotient) < 0
    THEN [num |-> StripZeros(quotient), mod |-> remainder]
    ELSE LET cur == remainder * 256 + num[i]
         IN  LongDivMod58(num, i + 1, Append(quotient, cur \div 58), cur % 58)

divmod58(num) == LongDivMod58(num, 1, <<>>, 0)

\* num * 58 + digit, over the bytes of num from place i down (the tests on
\* carry and low are never true, as above)
RECURSIVE MulAdd58(_, _, _, _)
MulAdd58(num, i, carry, low) ==
    IF i = 0 \/ carry < 0 \/ Len(low) < 0
    THEN StripZeros(<<carry \div 256, carry % 256>> \o low)
    ELSE LET cur == num[i] * 58 + carry
         IN  MulAdd58(num, i - 1, cur \div 256, <<cur % 256>> \o low)

\* the while loop of encode_base58
RECURSIVE EncodeDigits(_, _)
EncodeDigits(num, res) ==
    IF num = <<>> \/ Len(res) < 0 THEN res
    ELSE LET dm == divmod58(num)
         IN  EncodeDigits(dm.num, <<BASE58_NUMERALS[dm.mod + 1]>> \o res)

encode_base58(b) ==
    IF b = <<>> THEN <<>>
    ELSE LET leading_null_bytes == LeadingCount(b, 0)
             num == StripZeros(b)
             prefix == [i \in 1..leading_null_bytes |-> "1"]
         IN  prefix \o EncodeDigits(num, <<>>)

encode_base58_checksum(b) == encode_base58(b \o SubSeq(hash256(b), 1, 4))

\* BASE58_NUMERALS.index(c): ValueError for a character that is no numeral
IsNumeral(c) == \E i \in 1..58 : BASE58_NUMERALS[i] = c

NumeralIndex(c) == (CHOOSE i \in 1..58 : BASE58_NUMERALS[i] = c) - 1

\* the for loop of decode_base58 over s from place i on
RECURSIVE DecodeDigits(_, _, _)
DecodeDigits(s, i, num) ==
    IF i > Len(s) \/ Len(num) < 0 THEN num
    ELSE DecodeDigits(s, i + 1, MulAdd58(num, Len(num), NumeralIndex(s[i]), <<>>))

\* num.bit_length()
ByteBitLength(byte) ==
    IF byte = 0 THEN 0
    ELSE CHOOSE n \in 1..8 : 2 ^ (n - 1) <= byte /\ byte < 2 ^ n

bit_length(num) ==
    IF num = <<>> THEN 0 ELSE 8 * (Len(num) - 1) + ByteBitLength(num[1])

\* decode_base58 with the count of leading '1' left out of the width
decode_base58_no_nulls(s) ==
    IF s = <<>> THEN Ok(<<>>)
    ELSE LET leading_nulls == LeadingCount(s, "1")
             digits == SubSeq(s, leading_nulls + 1, Len(s))
             num == DecodeDigits(digits, 1, <<>>)
             bits == bit_length(num)
             byte_ct == IF bits % 8 = 0 THEN bits \div 8 ELSE bits \div 8 + 1
         IN  IF \E i \in 1..Len(digits) : ~IsNumeral(digits[i])
             THEN Exc("ValueError")
             ELSE PadBig(num, byte_ct)

decode_base58(s) ==
    IF s = <<>> THEN Ok(<<>>)
    ELSE LET leading_nulls == LeadingCount(s, "1")
             digits == SubSeq(s, leading_nulls + 1, Len(s))
             num == DecodeDigits(digits, 1, <<>>)
             bits == bit_length(num)
             byte_ct == IF bits % 8 = 0 THEN bits \div 8 ELSE bits \div 8 + 1
         IN  IF \E i \in 1..Len(digits) : ~IsNumeral(digits[i])
             THEN Exc("ValueError")
             ELSE PadBig(num, byte_ct + leading_nulls)

\* combined[-4:] and combined[:-4] are slices: they shorten without error
decode_base58_checksum(s) ==
    LET decoded == decode_base58(s)
        combined == decoded.val
        checksum == SubSeq(combined, Max2(Len(combined) - 3, 1), Len(combined))
        data == SubSeq(combined, 1, Len(combined) - 4)
    IN  IF decoded.exc # "none" THEN decoded
        ELSE IF SubSeq(hash256(data), 1, 4) # checksum THEN Exc("ValueError")
        ELSE Ok(data)

(***************************************************************************)
(* helper.py: encode_varint and read_varint on the whole range of the      *)
(* integers of Python.  An integer is [neg, mag]: its sign and the bytes   *)
(* of its magnitude, most significant first, without leading zeros.        *)
(* encode_varint and read_varint above are the same functions on the       *)
(* lengths, which stay below 2 ^ 31.                                       *)
(***************************************************************************)
Reversed(bs) == [i \in 1..Len(bs) |-> bs[Len(bs) + 1 - i]]

\* i.to_bytes(n, 'little') for a magnitude that fits
ToBytesLittleWide(mag, n) == Reversed(PadBig(mag, n).val)

\* int.from_bytes(bs, 'little')
FromBytesLittleWide(bs) == [neg |-> FALSE, mag |-> StripZeros(Reversed(bs))]

\* encode_varint with <= in place of < in its comparisons
encode_varint_wide_inclusive(i) ==
    IF i.neg THEN Exc("ValueError")
    ELSE IF ~BigLess(<<253>>, i.mag) THEN Ok(ToBytesLittleWide(i.mag, 1))
    ELSE IF ~BigLess(<<1, 0, 0>>, i.mag)
    THEN Ok(<<253>> \o ToBytesLittleWide(i.mag, 2))
    ELSE IF ~BigLess(<<1, 0, 0, 0, 0>>, i.mag)
    THEN Ok(<<254>> \o ToBytesLittleWide(i.mag, 4))
    ELSE IF ~BigLess(<<1, 0, 0, 0, 0, 0, 0, 0, 0>>, i.mag)
    THEN Ok(<<255>> \o ToBytesLittleWide(i.mag, 8))
    ELSE Exc("ValueError")

encode_varint_wide(i) ==
    IF i.neg THEN Exc("ValueError")
    ELSE IF BigLess(i.mag, <<253>>) THEN Ok(ToBytesLittleWide(i.mag, 1))
    ELSE IF BigLess(i.mag, <<1, 0, 0>>)
    THEN Ok(<<253>> \o ToBytesLittleWide(i.mag, 2))
    ELSE IF BigLess(i.mag, <<1, 0, 0, 0, 0>>)
    THEN Ok(<<254>> \o ToBytesLittleWide(i.mag, 4))
    ELSE IF BigLess(i.mag, <<1, 0, 0, 0, 0, 0, 0, 0, 0>>)
    THEN Ok(<<255>> \o ToBytesLittleWide(i.mag, 8))
    ELSE Exc("ValueError")

\* read_varint: the value read and the stream left; s.read(n) returns what
\* is left when the stream is shorter
read_varint_wide(s) ==
    IF s = <<>>
    THEN [exc |-> "IndexError", val |-> FromBytesLittleWide(<<>>), rest |-> s]
    ELSE LET i == s[1]
             r == Tail(s)
             n == IF i = 253 THEN 2 ELSE IF i = 254 THEN 4
                  ELSE IF i = 255 THEN 8 ELSE 0
         IN  IF n = 0
             THEN [exc |-> "none", val |-> FromBytesLittleWide(<<i>>),
                   rest |-> r]
             ELSE [exc |-> "none",
                   val |-> FromBytesLittleWide(StreamRead(r, n)),
                   rest |-> StreamSkip(r, n)]

(***************************************************************************)
(* tx.py: Tx, TxIn and TxOut.  version, locktime, prev_index, sequence    *)
(* and amount are magnitudes held as bytes, most significant first,        *)
(* without leading zeros; a script is its cmds; a stream is the bytes not  *)
(* yet read.                                                               *)
(***************************************************************************)
\* i.to_bytes(n, 'little'): OverflowError when i does not fit
ToBytesLittleN(mag, n) ==
    IF PadBig(mag, n).exc # "none" THEN PadBig(mag, n)
    ELSE Ok(Reversed(PadBig(mag, n).val))

\* a + b for two byte strings, one of which may have raised
Concat(a, b) ==
    IF a.exc # "none" THEN a
    ELSE IF b.exc # "none" THEN b
    ELSE Ok(a.val \o b.val)

\* TxIn.serialize with prev_tx written as it is held
TxIn_serialize_unreversed(tx_in) ==
    Concat(Concat(Concat(Ok(tx_in.prev_tx),
                         ToBytesLittleN(tx_in.prev_index, 4)),
                  serialize(tx_in.script_sig)),
           ToBytesLittleN(tx_in.sequence, 4))

\* TxIn.serialize
TxIn_serialize(tx_in) ==
    Concat(Concat(Concat(Ok(Reversed(tx_in.prev_tx)),
                         ToBytesLittleN(tx_in.prev_index, 4)),
                  serialize(tx_in.script_sig)),
           ToBytesLittleN(tx_in.sequence, 4))

\* TxOut.serialize
TxOut_serialize(tx_out) ==
    Concat(ToBytesLittleN(tx_out.amount, 8), serialize(tx_out.script_pubkey))

\* the two for loops of Tx.serialize
RECURSIVE SerializeTxIns(_, _)
SerializeTxIns(tx_ins, res) ==
    IF tx_ins = <<>> \/ res.exc # "none" THEN res
    ELSE SerializeTxIns(Tail(tx_ins), Concat(res, TxIn_serialize(Head(tx_ins))))

RECURSIVE SerializeTxOuts(_, _)
SerializeTxOuts(tx_outs, res) ==
    IF tx_outs = <<>> \/ res.exc # "none" THEN res
    ELSE SerializeTxOuts(Tail(tx_outs),
                         Concat(res, TxOut_serialize(Head(tx_outs))))

\* Tx.serialize
Tx_serialize(tx) ==
    LET head == Concat(ToBytesLittleN(tx.version, 4),
                       encode_varint(Len(tx.tx_ins)))
        ins == SerializeTxIns(tx.tx_ins, head)
        outs == SerializeTxOuts(tx.tx_outs,
                                Concat(ins, encode_varint(Len(tx.tx_outs))))
    IN  Concat(outs, ToBytesLittleN(tx.locktime, 4))

\* int.from_bytes(s.read(n), 'little')
ReadLittle(s, n) == FromBytesLittleWide(StreamRead(s, n)).mag

\* the stream where Script.deserialize leaves it when it returns: the
\* bytes it counted, or the end of the stream
AfterScript(s) == StreamSkip(read_varint(s).rest, read_varint(s).val)

\* TxIn.deserialize: the input read and the stream left
TxIn_deserialize(s) ==
    LET prev_tx == Reversed(StreamRead(s, 32))
        s1 == StreamSkip(s, 32)
        prev_index == ReadLittle(s1, 4)
        s2 == StreamSkip(s1, 4)
        script_sig == deserialize(s2)
        s3 == AfterScript(s2)
        sequence == ReadLittle(s3, 4)
    IN  IF script_sig.exc # "none"
        THEN [exc |-> script_sig.exc, val |-> <<>>, rest |-> <<>>]
        ELSE [exc |-> "none",
              val |-> [prev_tx |-> prev_tx, prev_index |-> prev_index,
                       script_sig |-> script_sig.val, sequence |-> sequence],
              rest |-> StreamSkip(s3, 4)]

\* TxOut.deserialize: the output read and the stream left
TxOut_deserialize(s) ==
    LET amount == ReadLittle(s, 8)
        s1 == StreamSkip(s, 8)
        script_pubkey == deserialize(s1)
    IN  IF script_pubkey.exc # "none"
        THEN [exc |-> script_pubkey.exc, val |-> <<>>, rest |-> <<>>]
        ELSE [exc |-> "none",
              val |-> [amount |-> amount, script_pubkey |-> script_pubkey.val],
              rest |-> AfterScript(s1)]

\* the two for loops of Tx.deserialize: n more to read into the list
RECURSIVE DeserializeTxIns(_, _, _)
DeserializeTxIns(s, n, tx_ins) ==
    IF n <= 0 THEN [exc |-> "none", val |-> tx_ins, rest |-> s]
    ELSE LET tx_in == TxIn_deserialize(s)
         IN  IF tx_in.exc # "none" THEN tx_in
             ELSE DeserializeTxIns(tx_in.rest, n - 1, Append(tx_ins, tx_in.val))

RECURSIVE DeserializeTxOuts(_, _, _)
DeserializeTxOuts(s, n, tx_outs) ==
    IF n <= 0 THEN [exc |-> "none", val |-> tx_outs, rest |-> s]
    ELSE LET tx_out == TxOut_deserialize(s)
         IN  IF tx_out.exc # "none" THEN tx_out
             ELSE DeserializeTxOuts(tx_out.rest, n - 1,
                                    Append(tx_outs, tx_out.val))

\* Tx.deserialize
Tx_deserialize(s) ==
    LET version == ReadLittle(s, 4)
        num_inputs == read_varint(StreamSkip(s, 4))
        tx_ins == DeserializeTxIns(num_inputs.rest, num_inputs.val, <<>>)
        num_outputs == read_varint(tx_ins.rest)
        tx_outs == DeserializeTxOuts(num_outputs.rest, num_outputs.val, <<>>)
        locktime == ReadLittle(tx_outs.rest, 4)
    IN  IF num_inputs.exc # "none" THEN Exc(num_inputs.exc)
        ELSE IF tx_ins.exc # "none" THEN Exc(tx_ins.exc)
        ELSE IF num_outputs.exc # "none" THEN Exc(num_outputs.exc)
        ELSE IF tx_outs.exc # "none" THEN Exc(tx_outs.exc)
        ELSE Ok([version |-> version, tx_ins |-> tx_ins.val,
                 tx_outs |-> tx_outs.val, locktime |-> locktime])

(***************************************************************************)
(* tx.py: TxFetcher.  A str is a sequence of characters.  The cache maps   *)
(* the tx ids it holds to transactions; a cached transaction is            *)
(* [tx, testnet], the fields Tx.deserialize read and the attribute         *)
(* testnet.  The text of the response to a request and the content of a    *)
(* cache file come from outside.                                           *)
(***************************************************************************)
HexDigits ==
    <<"0", "1", "2", "3", "4", "5", "6", "7", "8", "9",
      "a", "b", "c", "d", "e", "f">>

UpperHexDigits ==
    <<"0", "1", "2", "3", "4", "5", "6", "7", "8", "9",
      "A", "B", "C", "D", "E", "F">>

\* bytes.hex()
hex(bs) ==
    [i \in 1..(2 * Len(bs)) |->
        IF i % 2 = 1 THEN HexDigits[(bs[(i + 1) \div 2] \div 16) + 1]
        ELSE HexDigits[(bs[i \div 2] % 16) + 1]]

Whitespace == {" ", "\t", "\n", "\r", "\f"}

IsNotWhitespace(c) == c \notin Whitespace

\* str.strip()
strip(text) ==
    LET kept == {i \in 1..Len(text) : IsNotWhitespace(text[i])}
    IN  IF kept = {} THEN <<>>
        ELSE SubSeq(text, CHOOSE i \in kept : \A j \in kept : i <= j,
                    CHOOSE i \in kept : \A j \in kept : i >= j)

IsHexDigit(c) ==
    \E i \in 1..16 : HexDigits[i] = c \/ UpperHexDigits[i] = c

HexValue(c) ==
    (CHOOSE i \in 1..16 : HexDigits[i] = c \/ UpperHexDigits[i] = c) - 1

\* bytes.fromhex(text): two digits for every byte, whitespace allowed
\* between the bytes only; ValueError otherwise
fromhex(text) ==
    LET digits == SelectSeq(text, IsNotWhitespace)
        before(i) == Cardinality({j \in 1..(i - 1) : IsNotWhitespace(text[j])})
    IN  IF \/ \E i \in 1..Len(digits) : ~IsHexDigit(digits[i])
           \/ Len(digits) % 2 = 1
           \/ \E i \in 1..Len(text) :
                 text[i] \in Whitespace /\ before(i) % 2 = 1
        THEN Exc("ValueError")
        ELSE Ok([i \in 1..(Len(digits) \div 2) |->
                    16 * HexValue(digits[2 * i - 1]) + HexValue(digits[2 * i])])

\* Tx.parse: the class Tx has no attribute parse (tx.py:121-264)
Tx_parse(s) == Exc("AttributeError")

\* Tx.id
Tx_id(tx) == hex(Reversed(hash256(Tx_serialize(tx).val)))

\* raw[:4] + raw[6:]
WithoutMarker(raw) == SubSeq(raw, 1, Min2(4, Len(raw))) \o SubSeq(raw, 7, Len(raw))

\* int.from_bytes(raw[-4:], 'little')
LastFour(raw) == ReadLittle(SubSeq(raw, Max2(Len(raw) - 3, 1), Len(raw)), 4)

\* the statements of fetch and of load_cache that turn raw into a
\* transaction, for the parser each of them calls
ParseRaw(raw, parsed, parsedWithoutMarker) ==
    IF Len(raw) < 5 THEN Exc("IndexError")
    ELSE IF raw[5] = 0
    THEN IF parsedWithoutMarker.exc # "none" THEN parsedWithoutMarker
         ELSE Ok([parsedWithoutMarker.val
                     EXCEPT !.locktime = LastFour(WithoutMarker(raw))])
    ELSE parsed

\* cls.cache[k] = tx
Store(c, k, tx) ==
    [x \in DOMAIN c \cup {k} |-> IF x = k THEN tx ELSE c[x]]

\* TxFetcher.fetch: the cache it leaves, whether it made a request, and
\* what it raised or returned; response is the text of the reply
fetch(c, tx_id, testnet, fresh, response) ==
    LET raw == fromhex(strip(response))
        tx == ParseRaw(raw.val, Tx_parse(raw.val),
                       Tx_parse(WithoutMarker(raw.val)))
        stored == Store(c, tx_id, [tx |-> tx.val, testnet |-> testnet])
    IN  IF fresh \/ tx_id \notin DOMAIN c
        THEN IF raw.exc # "none"
             THEN [cache |-> c, requested |-> TRUE, exc |-> "ValueError",
                   val |-> <<>>]
             ELSE IF tx.exc # "none"
             THEN [cache |-> c, requested |-> TRUE, exc |-> tx.exc,
                   val |-> <<>>]
             ELSE IF Tx_id(tx.val) # tx_id
             THEN [cache |-> c, requested |-> TRUE, exc |-> "ValueError",
                   val |-> <<>>]
             ELSE [cache |-> stored, requested |-> TRUE, exc |-> "none",
                   val |-> stored[tx_id]]
        ELSE [cache |-> Store(c, tx_id, [c[tx_id] EXCEPT !.testnet = testnet]),
              requested |-> FALSE, exc |-> "none",
              val |-> [c[tx_id] EXCEPT !.testnet = testnet]]

\* the statements of the for loop of TxFetcher.load_cache behind fromhex,
\* for the bytes raw
LoadRaw(raw) ==
    ParseRaw(raw, Tx_deserialize(raw), Tx_deserialize(WithoutMarker(raw)))

\* cls.cache[k] = tx, reached when reading tx raised nothing
StoreLoaded(c, k, tx) ==
    IF tx.exc # "none" THEN [cache |-> c, exc |-> tx.exc]
    ELSE [cache |-> Store(c, k, [tx |-> tx.val, testnet |-> FALSE]),
          exc |-> "none"]

\* one pass of the for loop of TxFetcher.load_cache
LoadItem(c, k, raw) ==
    IF raw.exc # "none" THEN [cache |-> c, exc |-> raw.exc]
    ELSE StoreLoaded(c, k, LoadRaw(raw.val))

\* the for loop of TxFetcher.load_cache over the items of the file: an
\* exception leaves in the cache what was stored before it
RECURSIVE LoadItems(_, _)
LoadItems(out, items) ==
    IF items = <<>> \/ out.exc # "none" THEN out
    ELSE LoadItems(LoadItem(out.cache, Head(items)[1],
                            fromhex(Head(items)[2])),
                   Tail(items))

\* TxFetcher.load_cache, for the items of the file in their order
load_cache(c, disk_cache) ==
    LoadItems([cache |-> c, exc |-> "none"], disk_cache)

(***************************************************************************)
(* Bounded input sets.                                                     *)
(***************************************************************************)
MaxCmds == 2

MaxLow == 4

MaxItems == 4

Kinds == {"deque", "list"}

SeqsUpTo(S, n) == UNION {[1..m -> S] : m \in 0..n}

\* the commands of the scripts handed to Script.evaluate
EvalCmds ==
    {Op(0), Op(81), Op(80), Op(99), Op(104), Op(106), Op(117), Op(118),
     Op(172), Op(174), Op(175), Op(177), Op(255),
     El(<<>>), El(<<0>>), El(<<128>>), El(<<1>>)}

ZValues == {0, 1}

\* stacks handed to a handler: up to MaxLow elements below, up to two of
\* the number encodings 0, 1, -1, -0, 2, -3 on top
LowElems == {<<>>, <<1>>}

TopElems == {<<>>, <<1>>, <<129>>, <<128>>, <<2>>, <<131>>}

OpStacks ==
    {lo \o hi : lo \in SeqsUpTo(LowElems, MaxLow), hi \in SeqsUpTo(TopElems, 2)}

AltStacks == {<<>>, <<<<2>>>>, <<<<>>, <<1>>>>}

IfStacks == {<<>>, <<<<>>>>, <<<<1>>>>, <<<<128>>>>, <<<<2>>, <<129>>>>}

IfItems ==
    SeqsUpTo({Op(99), Op(100), Op(103), Op(104), Op(81), El(<<1>>)}, MaxItems)

LockStacks ==
    {<<>>, <<encode_num(499999999)>>, <<encode_num(500000000)>>,
     <<<<1>>, encode_num(500000001)>>, <<<<129>>>>, <<<<>>>>, <<<<5>>>>}

\* 0, 4, 499999999, 500000000, 500000001
LockTimes ==
    {W(0, 0), W(0, 4), W(7629, 25855), W(7629, 25856), W(7629, 25857)}

\* 0, 5, 1 << 22, 1 << 31, 0xffffffff
Sequences32 == {W(0, 0), W(0, 5), W(64, 0), W(32768, 0), W(65535, 65535)}

\* tops -1, 5, (1 << 31) + 5, (1 << 31) + (1 << 22), 1 << 31
SeqStacks ==
    {<<>>, <<<<129>>>>, <<<<5>>>>, <<<<5, 0, 0, 128, 0>>>>,
     <<<<0, 0, 64, 128, 0>>>>, <<<<0, 0, 0, 128, 0>>>>}

Versions == {1, 2}

\* the opcodes of the table whose handler takes the stack alone
StackOps == OP_CODE_FUNCTIONS \ ({99, 100, 107, 108, 177, 178} \cup (172..175))

\* a call: the opcode of the handler, its arguments (the stack and its
\* kind, the alt stack, the commands and their kind, and for the locktime
\* handlers locktime or version in a1 and sequence in a2), and what it
\* returned
NoCall == [fn |-> -1, k |-> "none", stack |-> <<>>, alt |-> <<>>,
           ik |-> "none", items |-> <<>>, a1 |-> W(0, 0), a2 |-> W(0, 0),
           ret |-> "none"]

\* nothing serialized or parsed yet
Pending == [exc |-> "pending", val |-> <<>>]

CodecIdle == inval = <<>> /\ step1 = Pending /\ step2 = Pending

\* no call of TxFetcher yet
NoReturn ==
    [op |-> "none", tx_id |-> <<>>, fresh |-> FALSE, requested |-> FALSE,
     exc |-> "none", val |-> <<>>]

\* cache = {} (tx.py:35)
EmptyCache == [k \in {} |-> <<>>]

FetcherIdle == cache = EmptyCache /\ returned = NoReturn

\* the deque that is the default value of the argument cmds of
\* Script.__init__: made once, when the class is defined (script.py:49)
DefaultCmds == 1

\* no Script yet: the only deque is the default one, and it is empty
ScriptsIdle == heap = <<<<>>>> /\ scripts = <<>> /\ changed = 0

MaxScript == 2

MaxNum == 300

\* the digests z: below the first power of two above P, as 2^256 is for
\* SECP256K1
MaxDigest == 63

SignInputs == [secret : 1..(N - 1), z : 0..MaxDigest]

\* the r and the s of the signatures handed to PublicKey.verify: below,
\* at and above both ends of the range (0, N), and inside it
RValues == {-1, 0, 1, 2, 7, 13, 29, N - 1, N, N + 1, 35}

SValuesToVerify == {-1, 0, 1, 5, N - 1, N, N + 1}

VerifyInputs ==
    [point : S256Points, z : 0..MaxDigest, r : RValues, s : SValuesToVerify]

SecInputs == [point : S256Points, compressed : BOOLEAN]

\* the r and the s of the signatures handed to Signature.der: 0, 1, 127,
\* 128, 255, 256, 2^15 - 1, 2^15, 2^247, 2^248 - 1, 2^248, 2^255 - 1,
\* 2^255, N - 1, N, 2^256 - 1 and 2^256 for the N of SECP256K1
DerValues ==
    {<<>>,
     <<1>>,
     <<127>>,
     <<128>>,
     <<255>>,
     <<1, 0>>,
     <<127, 255>>,
     <<128, 0>>,
     <<128, 0, 0, 0, 0, 0, 0, 0, 0, 0, 0, 0, 0, 0, 0, 0, 0, 0, 0, 0, 0, 0, 0, 0, 0, 0, 0, 0, 0, 0, 0>>,
     <<255, 255, 255, 255, 255, 255, 255, 255, 255, 255, 255, 255, 255, 255, 255, 255, 255, 255, 255, 255, 255, 255, 255, 255, 255, 255, 255, 255, 255, 255, 255>>,
     <<1, 0, 0, 0, 0, 0, 0, 0, 0, 0, 0, 0, 0, 0, 0, 0, 0, 0, 0, 0, 0, 0, 0, 0, 0, 0, 0, 0, 0, 0, 0, 0>>,
     <<127, 255, 255, 255, 255, 255, 255, 255, 255, 255, 255, 255, 255, 255, 255, 255, 255, 255, 255, 255, 255, 255, 255, 255, 255, 255, 255, 255, 255, 255, 255, 255>>,
     <<128, 0, 0, 0, 0, 0, 0, 0, 0, 0, 0, 0, 0, 0, 0, 0, 0, 0, 0, 0, 0, 0, 0, 0, 0, 0, 0, 0, 0, 0, 0, 0>>,
     BigSub(SECP256K1_N, ToBytesBig(1, 32)), SECP256K1_N,
     [i \in 1..32 |-> 255], <<1>> \o [i \in 1..32 |-> 0]}

DerInputs == [r : DerValues, s : DerValues]

MaxOffset == 20

\* the magnitudes handed to encode_varint: 0, 1, 2, 127, 128, 252 to 256,
\* 0x1234, 0xfd00, 2^16 - 1, 2^16, 2^16 + 1, 0xfd0000, 2^24, 2^31,
\* 2^32 - 1, 2^32, 2^32 + 1, 0xff00000000, 2^40, 2^56, 0x0102030405060708,
\* 2^63, 2^64 - 2, 2^64 - 1, 2^64, 2^64 + 1, 2^72 and 2^100
VarintMagnitudes ==
    {<<>>,
     <<1>>,
     <<2>>,
     <<127>>,
     <<128>>,
     <<252>>,
     <<253>>,
     <<254>>,
     <<255>>,
     <<1, 0>>,
     <<18, 52>>,
     <<253, 0>>,
     <<255, 255>>,
     <<1, 0, 0>>,
     <<1, 0, 1>>,
     <<253, 0, 0>>,
     <<1, 0, 0, 0>>,
     <<128, 0, 0, 0>>,
     <<255, 255, 255, 255>>,
     <<1, 0, 0, 0, 0>>,
     <<1, 0, 0, 0, 1>>,
     <<255, 0, 0, 0, 0>>,
     <<1, 0, 0, 0, 0, 0>>,
     <<1, 0, 0, 0, 0, 0, 0, 0>>,
     <<1, 2, 3, 4, 5, 6, 7, 8>>,
     <<128, 0, 0, 0, 0, 0, 0, 0>>,
     <<255, 255, 255, 255, 255, 255, 255, 254>>,
     <<255, 255, 255, 255, 255, 255, 255, 255>>,
     <<1, 0, 0, 0, 0, 0, 0, 0, 0>>,
     <<1, 0, 0, 0, 0, 0, 0, 0, 1>>,
     <<1, 0, 0, 0, 0, 0, 0, 0, 0, 0>>,
     <<16, 0, 0, 0, 0, 0, 0, 0, 0, 0, 0, 0, 0>>}

\* what follows the varint in the stream
VarintTails == {<<>>, <<0>>, <<253, 1>>, <<255, 255, 255>>}

VarintInputs ==
    {[i |-> [neg |-> n, mag |-> m], tail |-> tl] :
        n \in BOOLEAN, m \in VarintMagnitudes, tl \in VarintTails}
        \ {[i |-> [neg |-> TRUE, mag |-> <<>>], tail |-> tl] :
              tl \in VarintTails}

\* the longest of the byte strings enumerated for the base 58 functions
MaxPayload == 3

\* a public key hash behind the version byte 0, and a secret behind 0x80
AddressPayload == <<0>> \o [i \in 1..20 |-> (37 * i) % 256]

WifPayload == <<128>> \o [i \in 1..32 |-> (251 - 9 * i) % 256] \o <<1>>

Base58Inputs ==
    UNION {[1..n -> {0, 1, 58, 255}] : n \in 0..MaxPayload}
        \cup {[i \in 1..n |-> 0] : n \in 4..25}
        \cup {AddressPayload, WifPayload, <<0, 0>> \o WifPayload}

\* (SECP256K1.N - 1) / 2 + 10, 2^255 + 10, 21 and SECP256K1.N
SBases ==
    {<<127, 255, 255, 255, 255, 255, 255, 255,
       255, 255, 255, 255, 255, 255, 255, 255,
       93, 87, 110, 115, 87, 164, 80, 29,
       223, 233, 47, 70, 104, 27, 32, 170>>,
     <<128, 0, 0, 0, 0, 0, 0, 0,
       0, 0, 0, 0, 0, 0, 0, 0,
       0, 0, 0, 0, 0, 0, 0, 0,
       0, 0, 0, 0, 0, 0, 0, 10>>,
     <<0, 0, 0, 0, 0, 0, 0, 0,
       0, 0, 0, 0, 0, 0, 0, 0,
       0, 0, 0, 0, 0, 0, 0, 0,
       0, 0, 0, 0, 0, 0, 0, 21>>,
     SECP256K1_N}

\* the values of s that PrivateKey.sign computes at ecc.py:888, as 32
\* bytes: those next to 1, to N / 2, to 2^255 and to N - 1
SValues ==
    {BigSub(base, ToBytesBig(d, 32)) : base \in SBases, d \in 1..MaxOffset}

\* the integers handed to encode_num: all the small ones, and those next
\* to the powers of two where the encoding gets a byte longer
NumInputs ==
    LET edges == {32767, 32768, 65535, 65536, 8388607, 8388608, 16777215,
                  16777216, 2147483647}
    IN  (-MaxNum..MaxNum) \cup edges \cup {-e : e \in edges}

MaxTokens == 2

\* n bytes that differ from their neighbours, all of them in 68..75
Data(n, seed) == [i \in 1..n |-> 75 - ((seed + i) % 8)]

\* the commands of the scripts handed to Script.serialize: opcodes, among
\* them the values the wire format uses as push prefixes and an int that
\* is no byte, and elements on both sides of each length limit
SerOpcodes == {0, 1, 76, 77, 78, 81, 172, 255, 256}

SerElements ==
    {Data(n, 0) : n \in {0, 1, 2, 75, 76, 255, 256, 520, 521}}
        \cup {<<76>>, <<77, 1>>}

SerScripts ==
    SeqsUpTo({Op(n) : n \in SerOpcodes} \cup {El(b) : b \in SerElements},
             MaxScript)

\* the most inputs and the most outputs of a transaction
MaxTxIns == 2

MaxTxOuts == 2

\* a transaction id: 32 bytes that read differently backwards
TxId(seed) == [i \in 1..32 |-> (seed + 7 * i) % 256]

\* a signature script (a DER signature of 71 bytes and a SEC key of 33), the
\* empty script, a script with an element of 300 bytes and opcodes, and a
\* script that pushes the empty element
TxInputs ==
    {[prev_tx |-> TxId(1), prev_index |-> <<>>,
      script_sig |-> <<El(Data(71, 0)), El(Data(33, 1))>>,
      sequence |-> <<255, 255, 255, 255>>],
     [prev_tx |-> TxId(2), prev_index |-> <<1>>,
      script_sig |-> <<>>,
      sequence |-> <<255, 255, 255, 254>>],
     [prev_tx |-> TxId(3), prev_index |-> <<255, 255, 255, 255>>,
      script_sig |-> <<El(Data(300, 2)), Op(0), Op(174)>>,
      sequence |-> <<>>],
     [prev_tx |-> TxId(4), prev_index |-> <<1, 0>>,
      script_sig |-> <<El(<<>>), El(Data(72, 3))>>,
      sequence |-> <<1>>]}

\* a pay-to-pubkey-hash output of 50 BTC, an output of 2^64 - 1 with a data
\* element of 80 bytes, an output of 0 with the empty script, and an output
\* of 2^64
TxOutputs ==
    {[amount |-> <<1, 42, 5, 242, 0>>,
      script_pubkey |->
          <<Op(118), Op(169), El(Data(20, 4)), Op(136), Op(172)>>],
     [amount |-> [i \in 1..8 |-> 255],
      script_pubkey |-> <<Op(106), El(Data(80, 5))>>],
     [amount |-> <<>>, script_pubkey |-> <<>>],
     [amount |-> <<1, 0, 0, 0, 0, 0, 0, 0, 0>>,
      script_pubkey |-> <<El(<<7>>)>>]}

\* version and locktime: 1 and 0, 2 and 500000000, 2^32 - 1 twice, and
\* 1 with 2^32
TxHeaders ==
    {<<<<1>>, <<>>>>, <<<<2>>, <<29, 205, 101, 0>>>>,
     <<<<255, 255, 255, 255>>, <<255, 255, 255, 255>>>>,
     <<<<1>>, <<1, 0, 0, 0, 0>>>>}

Txs ==
    {[version |-> h[1], tx_ins |-> ins, tx_outs |-> outs, locktime |-> h[2]] :
        h \in TxHeaders, ins \in SeqsUpTo(TxInputs, MaxTxIns),
        outs \in SeqsUpTo(TxOutputs, MaxTxOuts)}

\* the most items of a cache file
MaxItemsOnDisk == 2

\* two transactions of one input and one output, with different ids
FetchedTxs ==
    <<[version |-> <<1>>,
       tx_ins |-> <<[prev_tx |-> TxId(1), prev_index |-> <<>>,
                     script_sig |-> <<El(<<5, 6, 7>>)>>,
                     sequence |-> <<255, 255, 255, 255>>]>>,
       tx_outs |-> <<[amount |-> <<1, 42, 5, 242, 0>>,
                      script_pubkey |-> <<Op(118), Op(169), El(Data(20, 4)),
                                          Op(136), Op(172)>>]>>,
       locktime |-> <<>>],
      [version |-> <<2>>,
       tx_ins |-> <<[prev_tx |-> TxId(2), prev_index |-> <<1>>,
                     script_sig |-> <<>>,
                     sequence |-> <<255, 255, 255, 254>>]>>,
       tx_outs |-> <<[amount |-> <<8>>, script_pubkey |-> <<Op(81)>>]>>,
       locktime |-> <<29, 205, 101, 0>>]>>

\* the ids asked for: those of the two transactions
FetchedIds == {Tx_id(FetchedTxs[i]) : i \in 1..2}

RawTxs == {Tx_serialize(FetchedTxs[i]).val : i \in 1..2}

\* a raw transaction with the marker and the flag of Segwit behind the
\* version
WithMarker(raw) == SubSeq(raw, 1, 4) \o <<0, 1>> \o SubSeq(raw, 5, Len(raw))

\* what a cache file holds for an id: a raw transaction in hex, with or
\* without the marker, a text that is no hex, and a raw of two bytes
RawHexes ==
    {hex(raw) : raw \in RawTxs}
        \cup {hex(WithMarker(Tx_serialize(FetchedTxs[1]).val))}
        \cup {<<"z", "z">>, <<"0", "1", "0", "0">>}

\* the cache files: up to MaxItemsOnDisk items under different ids
DiskCaches ==
    {items \in SeqsUpTo(FetchedIds \X RawHexes, MaxItemsOnDisk) :
        /\ items # <<>>
        /\ \A i, j \in 1..Len(items) : i # j => items[i][1] # items[j][1]}

\* the replies of the server: a raw transaction in hex and a newline, a
\* message, and a raw of two bytes
Responses ==
    {hex(raw) \o <<"\n">> : raw \in RawTxs}
        \cup {<<"N", "o", "t", " ", "F", "o", "u", "n", "d">>,
              <<"0", "1", "0", "0">>}

\* the fields: those of the primes up to MaxPrime, 2 among them
MaxPrime == 13

IsPrime(n) == n >= 2 /\ \A d \in 2..(n - 1) : n % d # 0

Primes == {n \in 2..MaxPrime : IsPrime(n)}

\* the exponents: from -MaxExponent to MaxExponent
MaxExponent == 14

\* FinFieldElem(num, prime) ** exponent, for num in and next to the range
FieldInputs ==
    {[num |-> num, prime |-> prime, exponent |-> exponent] :
        prime \in Primes, num \in (-1)..MaxPrime,
        exponent \in (-MaxExponent)..MaxExponent}

\* the fields of the curves: those of the primes from 3 to MaxCurvePrime
MaxCurvePrime == 7

CurvePrimes == {n \in 3..MaxCurvePrime : IsPrime(n)}

\* the elements of the field of p elements
Elems(p) == {[num |-> num, prime |-> p] : num \in 0..(p - 1)}

\* the curves over the field of p elements: every a and b
Curves(p) == Elems(p) \X Elems(p)

AllCurves == UNION {Curves(p) : p \in CurvePrimes}

\* the coefficients: from 0 to MaxCoefficient
MaxCoefficient == 22

\* the arguments of ECPoint, with every x and y, None among them, for every
\* curve over one field, and a coefficient for the point built
PointInputs ==
    UNION {{[x |-> x, y |-> y, a |-> c[1], b |-> c[2], coefficient |-> k] :
               x \in Elems(p) \cup {None}, y \in Elems(p) \cup {None},
               c \in Curves(p), k \in 0..3} : p \in CurvePrimes}

\* the points of a curve that ECPoint builds with both coordinates or none
CurvePoints(a, b) ==
    {pt \in [x : Elems(a.prime) \cup {None}, y : Elems(a.prime) \cup {None},
             a : {a}, b : {b}] :
        /\ (pt.x = None) = (pt.y = None)
        /\ ECPoint(pt.x, pt.y, a, b).exc = "none"}

\* the point at infinity of a curve
InfinityOf(a, b) == [x |-> None, y |-> None, a |-> a, b |-> b]

\* curves to take two operands from: those over the field of 3 elements,
\* and three over larger fields
CrossCurves ==
    Curves(3) \cup
        {<<[num |-> 0, prime |-> 5], [num |-> 2, prime |-> 5]>>,
         <<[num |-> 1, prime |-> 5], [num |-> 1, prime |-> 5]>>,
         <<[num |-> 1, prime |-> 7], [num |-> 1, prime |-> 7]>>}

\* the points of the other curves
OtherCurvePoints(c) ==
    UNION {CurvePoints(d[1], d[2]) : d \in CrossCurves \ {c}}

\* the infinity of a curve before and behind a point of another curve
CrossPairs(c) ==
    UNION {{[p |-> InfinityOf(c[1], c[2]), q |-> pt,
             r |-> InfinityOf(c[1], c[2])],
            [p |-> pt, q |-> InfinityOf(c[1], c[2]),
             r |-> InfinityOf(c[1], c[2])]} : pt \in OtherCurvePoints(c)}

\* the operands of (p + q) + r and p + (q + r): three points of one curve,
\* for every curve, and an infinity and a point of two curves
AddInputs ==
    UNION {[p : CurvePoints(c[1], c[2]), q : CurvePoints(c[1], c[2]),
            r : CurvePoints(c[1], c[2])] : c \in AllCurves}
    \cup UNION {CrossPairs(c) : c \in CrossCurves}

\* three points of the curve y^2 = x^3 + 7 over the field of 223 elements
PointsOver223 ==
    {[x |-> [num |-> pt[1], prime |-> 223],
      y |-> [num |-> pt[2], prime |-> 223],
      a |-> [num |-> 0, prime |-> 223], b |-> [num |-> 7, prime |-> 223]] :
        pt \in {<<47, 71>>, <<192, 105>>, <<17, 56>>}}

\* coefficient * point for the points of every curve and those over the
\* field of 223 elements
MulInputs ==
    [point : PointsOver223 \cup
                 UNION {CurvePoints(c[1], c[2]) : c \in AllCurves},
     coefficient : 0..MaxCoefficient]

\* the most Script objects, and the most commands of a deque
MaxScripts == 3

MaxDequeLen == 2

\* the command lists a Script is built with, the streams one is read from,
\* and the commands appended to one
NewCmds == {<<Op(118)>>}

ScriptStreams == {<<0>>, <<2, 1, 7>>}

AppendedCmds == {Op(81)}

\* the pieces of the bodies handed to Script.deserialize: opcode bytes,
\* pushes in each of the three forms, and pushes cut short
WireTokens ==
    {<<0>>, <<81>>}
        \cup {<<n>> \o Data(n, 0) : n \in {1, 75}}
        \cup {<<76, n>> \o Data(n, 0) : n \in {0, 75, 76, 255}}
        \cup {<<77>> \o ToBytesLittle(n, 2) \o Data(n, 0) :
                 n \in {0, 255, 256, 520, 521}}
        \cup {<<2, 65>>, <<76>>, <<77, 1>>}

RECURSIVE Flatten(_)
Flatten(ss) == IF ss = <<>> THEN <<>> ELSE Head(ss) \o Flatten(Tail(ss))

WireBodies == {Flatten(ts) : ts \in SeqsUpTo(WireTokens, MaxTokens)}

\* a body behind its varint length in each of the four forms, behind a
\* length that is off by one, and with a byte after it
Framings(body) ==
    LET n == Len(body)
    IN  {encode_varint(n).val \o body,
         <<253>> \o ToBytesLittle(n, 2) \o body,
         <<254>> \o ToBytesLittle(n, 4) \o body,
         <<255>> \o ToBytesLittle(n, 8) \o body,
         encode_varint(n + 1).val \o body,
         encode_varint(Max2(n - 1, 0)).val \o body,
         encode_varint(n).val \o body \o <<0>>}

WireInputs ==
    {<<>>, <<253>>} \cup UNION {Framings(body) : body \in WireBodies}

(***************************************************************************)
(* script.py: Script.evaluate.                                             *)
(***************************************************************************)
Init ==
    /\ pc = "start"
    /\ self_cmds \in SeqsUpTo(EvalCmds, MaxCmds)
    /\ cmdsKind \in Kinds
    /\ z \in ZValues
    /\ cmds = <<>>
    /\ stack = <<>>
    /\ stackKind = "deque"
    /\ altstack = <<>>
    /\ call = NoCall
    /\ result = "none"
    /\ CodecIdle
    /\ FetcherIdle
    /\ ScriptsIdle

\* cmds = self.cmds[:]; stack = deque(); altstack = deque()
\* a deque does not support slicing
EvalCopy ==
    /\ pc = "start"
    /\ IF cmdsKind = "deque"
       THEN /\ pc' = "done"
            /\ result' = "TypeError"
            /\ UNCHANGED cmds
       ELSE /\ pc' = "loop"
            /\ cmds' = self_cmds
            /\ UNCHANGED result
    /\ UNCHANGED <<self_cmds, cmdsKind, stack, stackKind, altstack, z, call>>
    /\ UNCHANGED codecVars
    /\ UNCHANGED fetcherVars
    /\ UNCHANGED scriptVars

\* one iteration of the while loop: cmd = cmds.popleft(), then the dispatch
\* a list has no popleft
EvalStep ==
    /\ pc = "loop"
    /\ Len(cmds) > 0
    /\ LET cmd == Head(cmds)
           rest == Tail(cmds)
       IN  IF cmdsKind = "list"
           THEN /\ pc' = "done"
                /\ result' = "AttributeError"
                /\ UNCHANGED <<cmds, stack, altstack, call>>
           ELSE IF ~IsInt(cmd)
           THEN /\ stack' = Append(stack, cmd.bytes)
                /\ cmds' = rest
                /\ UNCHANGED <<pc, result, altstack, call>>
           ELSE IF cmd.int \notin OP_CODE_FUNCTIONS
           THEN /\ pc' = "done"
                /\ result' = "False"
                /\ cmds' = rest
                /\ call' = [NoCall EXCEPT !.fn = cmd.int, !.ret = "no handler"]
                /\ UNCHANGED <<stack, altstack>>
           ELSE LET r == Operation(cmd.int, stackKind, stack, altstack,
                                   cmdsKind, rest, z)
                IN  /\ stack' = r.stack
                    /\ altstack' = r.alt
                    /\ cmds' = r.items
                    /\ call' = [NoCall EXCEPT !.fn = cmd.int, !.ret = r.ret]
                    /\ IF r.ret = "True"
                       THEN UNCHANGED <<pc, result>>
                       ELSE pc' = "done" /\ result' = r.ret
    /\ UNCHANGED <<self_cmds, cmdsKind, stackKind, z>>
    /\ UNCHANGED codecVars
    /\ UNCHANGED fetcherVars
    /\ UNCHANGED scriptVars

\* after the loop: an empty stack or an empty top element is False
\* (call keeps the stack the final check saw)
EvalFinish ==
    /\ pc = "loop"
    /\ Len(cmds) = 0
    /\ pc' = "done"
    /\ call' = [NoCall EXCEPT !.stack = stack, !.ret = "final"]
    /\ IF Len(stack) = 0
       THEN result' = "False" /\ UNCHANGED stack
       ELSE /\ stack' = Front(stack)
            /\ result' = IF Top(stack) = <<>> THEN "False" ELSE "True"
    /\ UNCHANGED <<self_cmds, cmdsKind, cmds, stackKind, altstack, z>>
    /\ UNCHANGED codecVars
    /\ UNCHANGED fetcherVars
    /\ UNCHANGED scriptVars

Next == EvalCopy \/ EvalStep \/ EvalFinish

Spec == Init /\ [][Next]_vars

(***************************************************************************)
(* A direct call of one opcode handler: the arguments are drawn from the   *)
(* bounded sets, call keeps them, and stack, altstack and cmds hold what   *)
(* the handler left in its (mutable) arguments.                            *)
(***************************************************************************)
InitOps ==
    /\ pc = "ready"
    /\ self_cmds = <<>>
    /\ cmdsKind = "list"
    /\ z = 0
    /\ cmds = <<>>
    /\ stack = <<>>
    /\ stackKind = "deque"
    /\ altstack = <<>>
    /\ call = NoCall
    /\ result = "none"
    /\ CodecIdle
    /\ FetcherIdle
    /\ ScriptsIdle

Returned(c, r) ==
    /\ pc' = "returned"
    /\ call' = [c EXCEPT !.ret = r.ret]
    /\ result' = r.ret
    /\ stack' = r.stack
    /\ altstack' = r.alt
    /\ cmds' = r.items
    /\ stackKind' = c.k
    /\ cmdsKind' = c.ik
    /\ UNCHANGED self_cmds
    /\ UNCHANGED codecVars
    /\ UNCHANGED fetcherVars
    /\ UNCHANGED scriptVars

CallStackOp ==
    /\ pc = "ready"
    /\ \E cmd \in StackOps, k \in Kinds, s \in OpStacks :
          /\ Returned([NoCall EXCEPT !.fn = cmd, !.k = k, !.stack = s,
                                      !.ik = "list"],
                      Operation(cmd, k, s, <<>>, "list", <<>>, 0))
          /\ UNCHANGED z

CallAltOp ==
    /\ pc = "ready"
    /\ \E cmd \in {107, 108}, k \in Kinds, s \in SeqsUpTo(TopElems, 1),
          alt \in AltStacks :
          /\ Returned([NoCall EXCEPT !.fn = cmd, !.k = k, !.stack = s,
                                      !.alt = alt, !.ik = "list"],
                      Operation(cmd, k, s, alt, "list", <<>>, 0))
          /\ UNCHANGED z

CallIfOp ==
    /\ pc = "ready"
    /\ \E cmd \in {99, 100}, k \in Kinds, ik \in Kinds, s \in IfStacks,
          items \in IfItems :
          /\ Returned([NoCall EXCEPT !.fn = cmd, !.k = k, !.stack = s,
                                      !.ik = ik, !.items = items],
                      Operation(cmd, k, s, <<>>, ik, items, 0))
          /\ UNCHANGED z

CallSigOp ==
    /\ pc = "ready"
    /\ \E cmd \in 172..175, k \in Kinds, s \in SeqsUpTo(TopElems, 2),
          zz \in ZValues :
          /\ Returned([NoCall EXCEPT !.fn = cmd, !.k = k, !.stack = s,
                                      !.ik = "list"],
                      Operation(cmd, k, s, <<>>, "list", <<>>, zz))
          /\ z' = zz

CallCheckLockTimeVerify ==
    /\ pc = "ready"
    /\ \E k \in Kinds, s \in LockStacks, locktime \in LockTimes,
          sequence \in Sequences32 :
          /\ LET r == op_checklocktimeverify(k, s, locktime, sequence)
             IN  Returned([NoCall EXCEPT !.fn = 177, !.k = k, !.stack = s,
                             !.ik = "list", !.a1 = locktime, !.a2 = sequence],
                          [ret |-> r.ret, stack |-> r.stack, alt |-> <<>>,
                           items |-> <<>>])
          /\ UNCHANGED z

CallCheckSequenceVerify ==
    /\ pc = "ready"
    /\ \E k \in Kinds, s \in SeqStacks, version \in Versions,
          sequence \in Sequences32 :
          /\ LET r == op_checksequenceverify(k, s, version, sequence)
             IN  Returned([NoCall EXCEPT !.fn = 178, !.k = k, !.stack = s,
                             !.ik = "list", !.a1 = W(0, version), !.a2 = sequence],
                          [ret |-> r.ret, stack |-> r.stack, alt |-> <<>>,
                           items |-> <<>>])
          /\ UNCHANGED z

NextOps ==
    \/ CallStackOp
    \/ CallAltOp
    \/ CallIfOp
    \/ CallSigOp
    \/ CallCheckLockTimeVerify
    \/ CallCheckSequenceVerify

SpecOps == InitOps /\ [][NextOps]_vars

(***************************************************************************)
(* script.py: Script.serialize followed by Script.deserialize on the bytes *)
(* it returned (SpecRoundTrip), and Script.deserialize followed by         *)
(* Script.serialize on the script it returned (SpecParse).  inval is the   *)
(* input, step1 what the first call returned and step2 the second.         *)
(***************************************************************************)
EvalIdle ==
    /\ self_cmds = <<>>
    /\ cmdsKind = "list"
    /\ z = 0
    /\ cmds = <<>>
    /\ stack = <<>>
    /\ stackKind = "deque"
    /\ altstack = <<>>
    /\ call = NoCall
    /\ result = "none"

InitRoundTrip ==
    /\ pc = "serialize"
    /\ inval \in SerScripts
    /\ step1 = Pending
    /\ step2 = Pending
    /\ EvalIdle
    /\ FetcherIdle
    /\ ScriptsIdle

SerializeScript ==
    /\ pc = "serialize"
    /\ step1' = serialize(inval)
    /\ pc' = IF step1'.exc = "none" THEN "deserialize" ELSE "raised"
    /\ UNCHANGED <<inval, step2>>
    /\ UNCHANGED evalVars
    /\ UNCHANGED fetcherVars
    /\ UNCHANGED scriptVars

DeserializeBytes ==
    /\ pc = "deserialize"
    /\ step2' = deserialize(step1.val)
    /\ pc' = IF step2'.exc = "none" THEN "parsed" ELSE "raised"
    /\ UNCHANGED <<inval, step1>>
    /\ UNCHANGED evalVars
    /\ UNCHANGED fetcherVars
    /\ UNCHANGED scriptVars

NextRoundTrip ==
    \/ SerializeScript
    \/ DeserializeBytes

SpecRoundTrip == InitRoundTrip /\ [][NextRoundTrip]_vars

InitParse ==
    /\ pc = "parse"
    /\ inval \in WireInputs
    /\ step1 = Pending
    /\ step2 = Pending
    /\ EvalIdle
    /\ FetcherIdle
    /\ ScriptsIdle

ParseBytes ==
    /\ pc = "parse"
    /\ step1' = deserialize(inval)
    /\ pc' = IF step1'.exc = "none" THEN "reserialize" ELSE "raised"
    /\ UNCHANGED <<inval, step2>>
    /\ UNCHANGED evalVars
    /\ UNCHANGED fetcherVars
    /\ UNCHANGED scriptVars

ReserializeScript ==
    /\ pc = "reserialize"
    /\ step2' = serialize(step1.val)
    /\ pc' = IF step2'.exc = "none" THEN "reserialized" ELSE "raised"
    /\ UNCHANGED <<inval, step1>>
    /\ UNCHANGED evalVars
    /\ UNCHANGED fetcherVars
    /\ UNCHANGED scriptVars

NextParse ==
    \/ ParseBytes
    \/ ReserializeScript

SpecParse == InitParse /\ [][NextParse]_vars

(***************************************************************************)
(* op.py: encode_num followed by decode_num on the bytes it returned.      *)
(* inval is the number, step1 its encoding and step2 the number decoded.   *)
(***************************************************************************)
InitNum ==
    /\ pc = "encode"
    /\ inval \in NumInputs
    /\ step1 = Pending
    /\ step2 = Pending
    /\ EvalIdle
    /\ FetcherIdle
    /\ ScriptsIdle

EncodeNum ==
    /\ pc = "encode"
    /\ step1' = Ok(encode_num(inval))
    /\ pc' = "decode"
    /\ UNCHANGED <<inval, step2>>
    /\ UNCHANGED evalVars
    /\ UNCHANGED fetcherVars
    /\ UNCHANGED scriptVars

DecodeNum ==
    /\ pc = "decode"
    /\ step2' = Ok(decode_num(step1.val))
    /\ pc' = "decoded"
    /\ UNCHANGED <<inval, step1>>
    /\ UNCHANGED evalVars
    /\ UNCHANGED fetcherVars
    /\ UNCHANGED scriptVars

NextNum ==
    \/ EncodeNum
    \/ DecodeNum

SpecNum == InitNum /\ [][NextNum]_vars

(***************************************************************************)
(* ecc.py: PrivateKey(secret).sign(z) followed by verify(z, signature) on  *)
(* the key's own point.  inval is [secret, z], step1 the signature and     *)
(* step2 what verify returned.                                             *)
(***************************************************************************)
InitSign ==
    /\ pc = "sign"
    /\ inval \in SignInputs
    /\ step1 = Pending
    /\ step2 = Pending
    /\ EvalIdle
    /\ FetcherIdle
    /\ ScriptsIdle

Sign ==
    /\ pc = "sign"
    /\ \E k \in deterministic_k : step1' = Ok(sign(inval.secret, inval.z, k))
    /\ pc' = "verify"
    /\ UNCHANGED <<inval, step2>>
    /\ UNCHANGED evalVars
    /\ UNCHANGED fetcherVars
    /\ UNCHANGED scriptVars

Verify ==
    /\ pc = "verify"
    /\ step2' = Ok(verify(PrivateKeyPoint(inval.secret), inval.z, step1.val))
    /\ pc' = "verified"
    /\ UNCHANGED <<inval, step1>>
    /\ UNCHANGED evalVars
    /\ UNCHANGED fetcherVars
    /\ UNCHANGED scriptVars

NextSign ==
    \/ Sign
    \/ Verify

SpecSign == InitSign /\ [][NextSign]_vars

(***************************************************************************)
(* ecc.py: PublicKey.verify on any key, digest and signature.  inval is    *)
(* [point, z, r, s] and step1 what verify returned.                        *)
(***************************************************************************)
InitVerify ==
    /\ pc = "check"
    /\ inval \in VerifyInputs
    /\ step1 = Pending
    /\ step2 = Pending
    /\ EvalIdle
    /\ FetcherIdle
    /\ ScriptsIdle

VerifySignature ==
    /\ pc = "check"
    /\ step1' = Ok(verify(inval.point, inval.z, [r |-> inval.r, s |-> inval.s]))
    /\ pc' = "checked"
    /\ UNCHANGED <<inval, step2>>
    /\ UNCHANGED evalVars
    /\ UNCHANGED fetcherVars
    /\ UNCHANGED scriptVars

NextVerify == VerifySignature

SpecVerify == InitVerify /\ [][NextVerify]_vars

(***************************************************************************)
(* ecc.py: PublicKey.sec followed by PublicKey.from_sec on the bytes it    *)
(* returned.  inval is [point, compressed], step1 the bytes and step2 the  *)
(* point parsed.                                                           *)
(***************************************************************************)
InitSec ==
    /\ pc = "sec"
    /\ inval \in SecInputs
    /\ step1 = Pending
    /\ step2 = Pending
    /\ EvalIdle
    /\ FetcherIdle
    /\ ScriptsIdle

Sec ==
    /\ pc = "sec"
    /\ step1' = sec(inval.point, inval.compressed)
    /\ pc' = IF step1'.exc = "none" THEN "from_sec" ELSE "raised"
    /\ UNCHANGED <<inval, step2>>
    /\ UNCHANGED evalVars
    /\ UNCHANGED fetcherVars
    /\ UNCHANGED scriptVars

FromSec ==
    /\ pc = "from_sec"
    /\ step2' = from_sec(step1.val)
    /\ pc' = IF step2'.exc = "none" THEN "parsed_sec" ELSE "raised"
    /\ UNCHANGED <<inval, step1>>
    /\ UNCHANGED evalVars
    /\ UNCHANGED fetcherVars
    /\ UNCHANGED scriptVars

NextSec ==
    \/ Sec
    \/ FromSec

SpecSec == InitSec /\ [][NextSec]_vars

(***************************************************************************)
(* ecc.py: Signature(r, s).der() followed by Signature.from_der on the     *)
(* bytes it returned.  inval is [r, s], step1 the bytes and step2 the      *)
(* signature parsed.                                                       *)
(***************************************************************************)
InitDer ==
    /\ pc = "der"
    /\ inval \in DerInputs
    /\ step1 = Pending
    /\ step2 = Pending
    /\ EvalIdle
    /\ FetcherIdle
    /\ ScriptsIdle

Der ==
    /\ pc = "der"
    /\ step1' = der(inval)
    /\ pc' = IF step1'.exc = "none" THEN "from_der" ELSE "raised"
    /\ UNCHANGED <<inval, step2>>
    /\ UNCHANGED evalVars
    /\ UNCHANGED fetcherVars
    /\ UNCHANGED scriptVars

FromDer ==
    /\ pc = "from_der"
    /\ step2' = from_der(step1.val)
    /\ pc' = IF step2'.exc = "none" THEN "parsed_der" ELSE "raised"
    /\ UNCHANGED <<inval, step1>>
    /\ UNCHANGED evalVars
    /\ UNCHANGED fetcherVars
    /\ UNCHANGED scriptVars

NextDer ==
    \/ Der
    \/ FromDer

SpecDer == InitDer /\ [][NextDer]_vars

(***************************************************************************)
(* helper.py: encode_base58_checksum followed by decode_base58_checksum    *)
(* on the string it returned.  inval is the byte string, step1 the string  *)
(* and step2 the bytes decoded.                                            *)
(***************************************************************************)
InitBase58 ==
    /\ pc = "encode58"
    /\ inval \in Base58Inputs
    /\ step1 = Pending
    /\ step2 = Pending
    /\ EvalIdle
    /\ FetcherIdle
    /\ ScriptsIdle

EncodeBase58Checksum ==
    /\ pc = "encode58"
    /\ step1' = Ok(encode_base58_checksum(inval))
    /\ pc' = "decode58"
    /\ UNCHANGED <<inval, step2>>
    /\ UNCHANGED evalVars
    /\ UNCHANGED fetcherVars
    /\ UNCHANGED scriptVars

DecodeBase58Checksum ==
    /\ pc = "decode58"
    /\ step2' = decode_base58_checksum(step1.val)
    /\ pc' = IF step2'.exc = "none" THEN "decoded58" ELSE "raised"
    /\ UNCHANGED <<inval, step1>>
    /\ UNCHANGED evalVars
    /\ UNCHANGED fetcherVars
    /\ UNCHANGED scriptVars

NextBase58 ==
    \/ EncodeBase58Checksum
    \/ DecodeBase58Checksum

SpecBase58 == InitBase58 /\ [][NextBase58]_vars

(***************************************************************************)
(* helper.py: encode_varint followed by read_varint on a stream that       *)
(* holds the bytes it returned and then inval.tail.  step1 is what         *)
(* encode_varint returned and step2 what read_varint returned and left.    *)
(***************************************************************************)
InitVarint ==
    /\ pc = "encode_varint"
    /\ inval \in VarintInputs
    /\ step1 = Pending
    /\ step2 = Pending
    /\ EvalIdle
    /\ FetcherIdle
    /\ ScriptsIdle

EncodeVarint ==
    /\ pc = "encode_varint"
    /\ step1' = encode_varint_wide(inval.i)
    /\ pc' = IF step1'.exc = "none" THEN "read_varint" ELSE "raised"
    /\ UNCHANGED <<inval, step2>>
    /\ UNCHANGED evalVars
    /\ UNCHANGED fetcherVars
    /\ UNCHANGED scriptVars

ReadVarint ==
    /\ pc = "read_varint"
    /\ step2' = read_varint_wide(step1.val \o inval.tail)
    /\ pc' = IF step2'.exc = "none" THEN "read" ELSE "raised"
    /\ UNCHANGED <<inval, step1>>
    /\ UNCHANGED evalVars
    /\ UNCHANGED fetcherVars
    /\ UNCHANGED scriptVars

NextVarint ==
    \/ EncodeVarint
    \/ ReadVarint

SpecVarint == InitVarint /\ [][NextVarint]_vars

(***************************************************************************)
(* tx.py: Tx.serialize followed by Tx.deserialize on a stream of the       *)
(* bytes it returned.  inval is the transaction, step1 the bytes and       *)
(* step2 the transaction read.                                             *)
(***************************************************************************)
InitTx ==
    /\ pc = "tx_serialize"
    /\ inval \in Txs
    /\ step1 = Pending
    /\ step2 = Pending
    /\ EvalIdle
    /\ FetcherIdle
    /\ ScriptsIdle

SerializeTx ==
    /\ pc = "tx_serialize"
    /\ step1' = Tx_serialize(inval)
    /\ pc' = IF step1'.exc = "none" THEN "tx_deserialize" ELSE "raised"
    /\ UNCHANGED <<inval, step2>>
    /\ UNCHANGED evalVars
    /\ UNCHANGED fetcherVars
    /\ UNCHANGED scriptVars

DeserializeTx ==
    /\ pc = "tx_deserialize"
    /\ step2' = Tx_deserialize(step1.val)
    /\ pc' = IF step2'.exc = "none" THEN "tx_read" ELSE "raised"
    /\ UNCHANGED <<inval, step1>>
    /\ UNCHANGED evalVars
    /\ UNCHANGED fetcherVars
    /\ UNCHANGED scriptVars

NextTx ==
    \/ SerializeTx
    \/ DeserializeTx

SpecTx == InitTx /\ [][NextTx]_vars

(***************************************************************************)
(* tx.py: the calls of TxFetcher.fetch and TxFetcher.load_cache, in any    *)
(* order.  returned holds the call made last and its outcome.              *)
(***************************************************************************)
InitFetcher ==
    /\ pc = "fetcher"
    /\ cache = EmptyCache
    /\ returned = NoReturn
    /\ CodecIdle
    /\ EvalIdle
    /\ ScriptsIdle

Fetch ==
    \E tx_id \in FetchedIds, testnet \in BOOLEAN, fresh \in BOOLEAN,
       response \in Responses :
        LET out == fetch(cache, tx_id, testnet, fresh, response)
        IN  /\ pc = "fetcher"
            /\ cache' = out.cache
            /\ returned' = [op |-> "fetch", tx_id |-> tx_id, fresh |-> fresh,
                            requested |-> out.requested, exc |-> out.exc,
                            val |-> out.val]
            /\ UNCHANGED <<pc, evalVars, codecVars, scriptVars>>

LoadCache ==
    \E disk_cache \in DiskCaches :
        LET out == load_cache(cache, disk_cache)
        IN  /\ pc = "fetcher"
            /\ cache' = out.cache
            /\ returned' = [op |-> "load_cache", tx_id |-> <<>>,
                            fresh |-> FALSE, requested |-> FALSE,
                            exc |-> out.exc, val |-> <<>>]
            /\ UNCHANGED <<pc, evalVars, codecVars, scriptVars>>

NextFetcher ==
    \/ Fetch
    \/ LoadCache

SpecFetcher == InitFetcher /\ [][NextFetcher]_vars

(***************************************************************************)
(* ecc.py: the last statements of PrivateKey.sign, on numbers of the       *)
(* width of SECP256K1.  inval is the s computed at ecc.py:888 and step1    *)
(* the s of the signature returned.                                        *)
(***************************************************************************)
InitLowS ==
    /\ pc = "computed"
    /\ inval \in SValues
    /\ step1 = Pending
    /\ step2 = Pending
    /\ EvalIdle
    /\ FetcherIdle
    /\ ScriptsIdle

ReturnSignature ==
    /\ pc = "computed"
    /\ step1' = Ok(LowS(inval, SECP256K1_N))
    /\ pc' = "signed"
    /\ UNCHANGED <<inval, step2>>
    /\ UNCHANGED evalVars
    /\ UNCHANGED fetcherVars
    /\ UNCHANGED scriptVars

NextLowS == ReturnSignature

SpecLowS == InitLowS /\ [][NextLowS]_vars

(***************************************************************************)
(* ecc.py: FinFieldElem(num, prime) and then one expression over the       *)
(* element a it built.  inval is [num, prime, exponent], step1 what the    *)
(* constructor returned or raised, step2 the expression and its value.     *)
(***************************************************************************)
InitField ==
    /\ pc = "new"
    /\ inval \in FieldInputs
    /\ step1 = Pending
    /\ step2 = Pending
    /\ EvalIdle
    /\ FetcherIdle
    /\ ScriptsIdle

FieldNew ==
    /\ pc = "new"
    /\ step1' = FinFieldElem(inval.num, inval.prime)
    /\ pc' = IF step1'.exc = "none" THEN "built" ELSE "raised"
    /\ UNCHANGED <<inval, step2>>
    /\ UNCHANGED evalVars
    /\ UNCHANGED fetcherVars
    /\ UNCHANGED scriptVars

\* a ** exponent
Pow ==
    /\ pc = "built"
    /\ step2' = [op |-> "pow",
                 out |-> FinFieldElem_pow(step1.val, inval.exponent)]
    /\ pc' = "done"
    /\ UNCHANGED <<inval, step1>>
    /\ UNCHANGED evalVars
    /\ UNCHANGED fetcherVars
    /\ UNCHANGED scriptVars

\* a / a
TrueDiv ==
    /\ pc = "built"
    /\ step2' = [op |-> "truediv",
                 out |-> FinFieldElem_truediv(step1.val, step1.val)]
    /\ pc' = "done"
    /\ UNCHANGED <<inval, step1>>
    /\ UNCHANGED evalVars
    /\ UNCHANGED fetcherVars
    /\ UNCHANGED scriptVars

\* a * a ** (p - 2)
MulInverse ==
    /\ pc = "built"
    /\ step2' = [op |-> "mul_inverse",
                 out |-> FinFieldElem_mul(step1.val,
                             FinFieldElem_pow(step1.val,
                                              inval.prime - 2).val)]
    /\ pc' = "done"
    /\ UNCHANGED <<inval, step1>>
    /\ UNCHANGED evalVars
    /\ UNCHANGED fetcherVars
    /\ UNCHANGED scriptVars

\* a ** exponent * a ** (-exponent)
PowProduct ==
    /\ pc = "built"
    /\ step2' = [op |-> "pow_product",
                 out |-> FinFieldElem_mul(
                             FinFieldElem_pow(step1.val, inval.exponent).val,
                             FinFieldElem_pow(step1.val,
                                              -inval.exponent).val)]
    /\ pc' = "done"
    /\ UNCHANGED <<inval, step1>>
    /\ UNCHANGED evalVars
    /\ UNCHANGED fetcherVars
    /\ UNCHANGED scriptVars

NextField ==
    \/ FieldNew
    \/ Pow
    \/ TrueDiv
    \/ MulInverse
    \/ PowProduct

SpecField == InitField /\ [][NextField]_vars

(***************************************************************************)
(* ecc.py: ECPoint(x, y, a, b), and then the point it built added to       *)
(* itself or multiplied.  inval is [x, y, a, b, coefficient], step1 what   *)
(* the constructor returned or raised, step2 the sum or the product.       *)
(***************************************************************************)
InitPoint ==
    /\ pc = "new_point"
    /\ inval \in PointInputs
    /\ step1 = Pending
    /\ step2 = Pending
    /\ EvalIdle
    /\ FetcherIdle
    /\ ScriptsIdle

PointNew ==
    /\ pc = "new_point"
    /\ step1' = ECPoint(inval.x, inval.y, inval.a, inval.b)
    /\ pc' = IF step1'.exc = "none" THEN "point" ELSE "raised"
    /\ UNCHANGED <<inval, step2>>
    /\ UNCHANGED evalVars
    /\ UNCHANGED fetcherVars
    /\ UNCHANGED scriptVars

\* point + point
PointDouble ==
    /\ pc = "point"
    /\ step2' = ECPoint_add(step1.val, step1.val)
    /\ pc' = IF step2'.exc = "none" THEN "point_returned" ELSE "raised"
    /\ UNCHANGED <<inval, step1>>
    /\ UNCHANGED evalVars
    /\ UNCHANGED fetcherVars
    /\ UNCHANGED scriptVars

\* coefficient * point
PointMultiply ==
    /\ pc = "point"
    /\ step2' = ECPoint_rmul(inval.coefficient, step1.val)
    /\ pc' = IF step2'.exc = "none" THEN "point_returned" ELSE "raised"
    /\ UNCHANGED <<inval, step1>>
    /\ UNCHANGED evalVars
    /\ UNCHANGED fetcherVars
    /\ UNCHANGED scriptVars

NextPoint ==
    \/ PointNew
    \/ PointDouble
    \/ PointMultiply

SpecPoint == InitPoint /\ [][NextPoint]_vars

(***************************************************************************)
(* ecc.py: (p + q) + r and then p + (q + r).  inval is [p, q, r]; step1    *)
(* is p + q and then (p + q) + r, step2 is q + r and then p + (q + r).     *)
(***************************************************************************)
InitAdd ==
    /\ pc = "add"
    /\ inval \in AddInputs
    /\ step1 = Pending
    /\ step2 = Pending
    /\ EvalIdle
    /\ FetcherIdle
    /\ ScriptsIdle

\* p + q
AddLeft ==
    /\ pc = "add"
    /\ step1' = ECPoint_add(inval.p, inval.q)
    /\ pc' = IF step1'.exc = "none" THEN "left" ELSE "left_raised"
    /\ UNCHANGED <<inval, step2>>
    /\ UNCHANGED evalVars
    /\ UNCHANGED fetcherVars
    /\ UNCHANGED scriptVars

\* (p + q) + r
AddLeftThen ==
    /\ pc = "left"
    /\ step1' = ECPoint_add(step1.val, inval.r)
    /\ pc' = IF step1'.exc = "none" THEN "left_added" ELSE "raised"
    /\ UNCHANGED <<inval, step2>>
    /\ UNCHANGED evalVars
    /\ UNCHANGED fetcherVars
    /\ UNCHANGED scriptVars

\* q + r
AddRight ==
    /\ pc = "left_added"
    /\ step2' = ECPoint_add(inval.q, inval.r)
    /\ pc' = IF step2'.exc = "none" THEN "right" ELSE "raised"
    /\ UNCHANGED <<inval, step1>>
    /\ UNCHANGED evalVars
    /\ UNCHANGED fetcherVars
    /\ UNCHANGED scriptVars

\* p + (q + r)
AddRightThen ==
    /\ pc = "right"
    /\ step2' = ECPoint_add(inval.p, step2.val)
    /\ pc' = IF step2'.exc = "none" THEN "added" ELSE "raised"
    /\ UNCHANGED <<inval, step1>>
    /\ UNCHANGED evalVars
    /\ UNCHANGED fetcherVars
    /\ UNCHANGED scriptVars

NextAdd ==
    \/ AddLeft
    \/ AddLeftThen
    \/ AddRight
    \/ AddRightThen

SpecAdd == InitAdd /\ [][NextAdd]_vars

(***************************************************************************)
(* ecc.py: coefficient * point.  inval is [point, coefficient] and step1   *)
(* what ECPoint.__rmul__ returned or raised.                               *)
(***************************************************************************)
InitMul ==
    /\ pc = "rmul"
    /\ inval \in MulInputs
    /\ step1 = Pending
    /\ step2 = Pending
    /\ EvalIdle
    /\ FetcherIdle
    /\ ScriptsIdle

RMul ==
    /\ pc = "rmul"
    /\ step1' = ECPoint_rmul(inval.coefficient, inval.point)
    /\ pc' = IF step1'.exc = "none" THEN "multiplied" ELSE "raised"
    /\ UNCHANGED <<inval, step2>>
    /\ UNCHANGED evalVars
    /\ UNCHANGED fetcherVars
    /\ UNCHANGED scriptVars

NextMul == RMul

SpecMul == InitMul /\ [][NextMul]_vars

(***************************************************************************)
(* script.py: Script objects and the deques they hold.  heap[d] is the     *)
(* content of the deque object d; scripts[i] is the i-th Script built,     *)
(* with the deque its attribute cmds refers to and the call that built     *)
(* it; changed is the Script whose cmds the last step changed, 0 when the  *)
(* step built a Script.                                                    *)
(***************************************************************************)
InitScripts ==
    /\ pc = "scripts"
    /\ heap = <<<<>>>>
    /\ scripts = <<>>
    /\ changed = 0
    /\ CodecIdle
    /\ EvalIdle
    /\ FetcherIdle

\* the commands of the i-th Script
CmdsOf(h, ss, i) == h[ss[i].cmds]

\* Script(): self.cmds = cmds, the default deque
ScriptNew ==
    /\ pc = "scripts"
    /\ Len(scripts) < MaxScripts
    /\ scripts' = Append(scripts, [cmds |-> DefaultCmds, by |-> "Script()"])
    /\ changed' = 0
    /\ UNCHANGED <<pc, heap, evalVars, codecVars, fetcherVars>>

\* Script(cmds) for a deque the caller made: self.cmds = cmds
ScriptNewOf ==
    \E c \in NewCmds :
        /\ pc = "scripts"
        /\ Len(scripts) < MaxScripts
        /\ heap' = Append(heap, c)
        /\ scripts' = Append(scripts,
                             [cmds |-> Len(heap) + 1, by |-> "Script(cmds)"])
        /\ changed' = 0
        /\ UNCHANGED <<pc, evalVars, codecVars, fetcherVars>>

\* TxIn(prev_tx, prev_index): self.script_sig = Script()
TxInNew ==
    /\ pc = "scripts"
    /\ Len(scripts) < MaxScripts
    /\ scripts' = Append(scripts, [cmds |-> DefaultCmds, by |-> "TxIn"])
    /\ changed' = 0
    /\ UNCHANGED <<pc, heap, evalVars, codecVars, fetcherVars>>

\* Script.deserialize(s): cmds = deque(), filled from the stream, cls(cmds)
ScriptDeserialize ==
    \E s \in ScriptStreams :
        /\ pc = "scripts"
        /\ Len(scripts) < MaxScripts
        /\ deserialize(s).exc = "none"
        /\ heap' = Append(heap, deserialize(s).val)
        /\ scripts' = Append(scripts,
                             [cmds |-> Len(heap) + 1, by |-> "deserialize"])
        /\ changed' = 0
        /\ UNCHANGED <<pc, evalVars, codecVars, fetcherVars>>

\* scripts[i].cmds.append(cmd)
AppendCmd ==
    \E i \in 1..Len(scripts), cmd \in AppendedCmds :
        /\ pc = "scripts"
        /\ Len(CmdsOf(heap, scripts, i)) < MaxDequeLen
        /\ heap' = [heap EXCEPT ![scripts[i].cmds] = Append(@, cmd)]
        /\ changed' = i
        /\ UNCHANGED <<pc, scripts, evalVars, codecVars, fetcherVars>>

\* scripts[i].cmds.clear()
ClearCmds ==
    \E i \in 1..Len(scripts) :
        /\ pc = "scripts"
        /\ heap' = [heap EXCEPT ![scripts[i].cmds] = <<>>]
        /\ changed' = i
        /\ UNCHANGED <<pc, scripts, evalVars, codecVars, fetcherVars>>

NextScripts ==
    \/ ScriptNew
    \/ ScriptNewOf
    \/ TxInNew
    \/ ScriptDeserialize
    \/ AppendCmd
    \/ ClearCmds

SpecScripts == InitScripts /\ [][NextScripts]_vars

(***************************************************************************)
(* Properties of Script.evaluate (specification Spec).                     *)
(***************************************************************************)

\* C1: every evaluation finishes by returning a boolean; a script-invalid
\* outcome is the return value False, never a raised exception.
EvaluateReturnsBoolean ==
    pc = "done" => result \in {"True", "False"}

\* what makes a script invalid: an executed opcode returned false or has no
\* handler, or the stack left after the last command is empty or has a zero
\* on top
ZeroTop(s) == s = <<>> \/ decode_num(Top(s)) = 0

ScriptInvalid ==
    \/ call.ret \in {"False", "no handler"}
    \/ call.ret \in {"final", "none"} /\ ZeroTop(call.stack)

\* C2: evaluate returns False if and only if the script is invalid (an
\* opcode failed, or the final stack is empty or has a zero value, such as
\* b'', b'\x00' or b'\x80', on top), and True in every other case.
EvaluateFalseIffInvalid ==
    pc = "done" => result = (IF ScriptInvalid THEN "False" ELSE "True")

\* C8: a script that reaches OP_CHECKMULTISIG (0xAE) or
\* OP_CHECKMULTISIGVERIFY (0xAF), here as its first command, makes evaluate
\* return False.
CheckMultiSigIsInvalid ==
    (/\ pc = "done"
     /\ self_cmds # <<>>
     /\ (IsOp(Head(self_cmds), 174) \/ IsOp(Head(self_cmds), 175)))
        => result = "False"

(***************************************************************************)
(* Properties of the wire format (specifications SpecRoundTrip and         *)
(* SpecParse).                                                             *)
(***************************************************************************)
RoundTripOver == pc \in {"parsed", "raised"}

RoundTripExact == pc = "parsed" /\ step2.val = inval

\* an opcode that is a command of a script: a byte that is not one of the
\* push prefixes 0x01..0x4D, which the wire format keeps for the elements
IsOpcode(cmd) == IsInt(cmd) /\ (cmd.int = 0 \/ cmd.int \in 78..255)

\* C3, as stated: for every script whose commands are integer opcodes and
\* byte strings of length 0..520, deserialize(serialize(S)) has exactly
\* the commands of S.
RoundTripKeepsCommands ==
    (/\ RoundTripOver
     /\ \A i \in 1..Len(inval) :
           IF IsInt(inval[i]) THEN IsOpcode(inval[i])
           ELSE Len(inval[i].bytes) \in 0..520)
        => RoundTripExact

\* C3: for every script whose commands are integer opcodes outside
\* 0x01..0x4D and byte strings of length 1..520, deserialize(serialize(S))
\* has exactly the commands of S.  (The empty byte string is written as
\* the byte 0x00, which reads back as opcode 0.)
RoundTripKeepsNonEmptyElements ==
    (/\ RoundTripOver
     /\ \A i \in 1..Len(inval) :
           IF IsInt(inval[i]) THEN IsOpcode(inval[i])
           ELSE Len(inval[i].bytes) \in 1..520)
        => RoundTripExact

\* a script with an element written with OP_PUSHDATA1 and one written with
\* OP_PUSHDATA2 came back as it was
RoundTripOfLongElements ==
    /\ RoundTripExact
    /\ \E i, j \in 1..Len(inval) :
          /\ ~IsInt(inval[i]) /\ Len(inval[i].bytes) \in 76..255
          /\ ~IsInt(inval[j]) /\ Len(inval[j].bytes) \in 256..520

ParseOver == pc \in {"reserialized", "raised"} /\ step1.exc = "none"

ParseExact == pc = "reserialized" /\ step2.val = inval

\* the size of the varint a byte string starts with
VarintSize(wire) ==
    IF wire[1] < 253 THEN 1 ELSE IF wire[1] = 253 THEN 3
    ELSE IF wire[1] = 254 THEN 5 ELSE 9

\* a varint n followed by exactly n bytes
Framed(wire) ==
    /\ wire # <<>>
    /\ Len(wire) >= VarintSize(wire)
    /\ Len(wire) - VarintSize(wire) =
          IF VarintSize(wire) = 1 THEN wire[1]
          ELSE LittleEndianValue(SubSeq(wire, 2, VarintSize(wire)))

Body(wire) == SubSeq(wire, VarintSize(wire) + 1, Len(wire))

\* the varint is the shortest one of the length of the body
ShortestVarint(wire) ==
    VarintSize(wire) =
        IF Len(Body(wire)) < 253 THEN 1 ELSE IF Len(Body(wire)) < 65536 THEN 3 ELSE 5

\* a body made of opcode bytes and of pushes that are all there, written
\* with a direct length byte, OP_PUSHDATA1 or OP_PUSHDATA2; shortest asks
\* each push to be in the shortest form for its length: a direct length
\* byte for 1..75 bytes, OP_PUSHDATA1 for 76..255, OP_PUSHDATA2 for 256..520
RECURSIVE CompletePushes(_, _)
CompletePushes(body, shortest) ==
    IF body = <<>> THEN TRUE
    ELSE LET b == body[1]
             n1 == body[2]
             n2 == body[2] + 256 * body[3]
             rest(k) == SubSeq(body, k + 1, Len(body))
         IN  IF b \in 1..75
             THEN Len(body) >= 1 + b /\ CompletePushes(rest(1 + b), shortest)
             ELSE IF b = 76
             THEN /\ Len(body) >= 2
                  /\ shortest => n1 \in 76..255
                  /\ Len(body) >= 2 + n1
                  /\ CompletePushes(rest(2 + n1), shortest)
             ELSE IF b = 77
             THEN /\ Len(body) >= 3
                  /\ shortest => n2 \in 256..520
                  /\ Len(body) >= 3 + n2
                  /\ CompletePushes(rest(3 + n2), shortest)
             ELSE CompletePushes(Tail(body), shortest)

WellFormed(wire) == Framed(wire) /\ CompletePushes(Body(wire), FALSE)

Canonical(wire) ==
    Framed(wire) /\ ShortestVarint(wire) /\ CompletePushes(Body(wire), TRUE)

\* C4, as stated: for every byte string B that deserialize accepts (a
\* varint length followed by opcodes and pushes written with a direct
\* length byte, OP_PUSHDATA1 or OP_PUSHDATA2), deserialize(B).serialize()
\* returns exactly B.
ReserializeReturnsInput == (ParseOver /\ WellFormed(inval)) => ParseExact

\* C4: for every byte string B that deserialize accepts and that is the
\* shortest varint of the length of its body followed by opcodes and
\* pushes, each push in the shortest form for its length,
\* deserialize(B).serialize() returns exactly B.
ReserializeReturnsCanonicalInput ==
    (ParseOver /\ Canonical(inval)) => ParseExact

\* bytes holding an OP_PUSHDATA1 push and an OP_PUSHDATA2 push were
\* parsed and written back as they were
ReserializedLongPushes ==
    /\ ParseExact
    /\ Canonical(inval)
    /\ \E i, j \in 1..Len(step1.val) :
          /\ ~IsInt(step1.val[i]) /\ Len(step1.val[i].bytes) \in 76..255
          /\ ~IsInt(step1.val[j]) /\ Len(step1.val[j].bytes) \in 256..520

(***************************************************************************)
(* Properties of the Script numbers (specification SpecNum).               *)
(***************************************************************************)
\* bs is the little-endian magnitude of m > 0: its value is m and its last
\* (most significant) byte is not zero
IsMagnitude(bs, m) ==
    /\ bs # <<>>
    /\ \A i \in 1..Len(bs) : bs[i] \in Byte
    /\ bs[Len(bs)] # 0
    /\ LittleEndianValue(bs) = m

\* enc is the magnitude of |n| with the sign in the high bit of its last
\* byte, behind one extra byte (0x80 or 0x00) exactly when the top byte of
\* the magnitude has its high bit set
IsSignedMagnitude(enc, n) ==
    /\ enc # <<>>
    /\ LET last == enc[Len(enc)]
       IN  IF last \in {0, 128}
           THEN /\ IsMagnitude(Front(enc), Abs(n))
                /\ enc[Len(enc) - 1] >= 128
                /\ (last = 128) <=> (n < 0)
           ELSE /\ IsMagnitude([enc EXCEPT ![Len(enc)] = last % 128], Abs(n))
                /\ (last >= 128) <=> (n < 0)

\* C11: decode_num(encode_num(n)) = n for every integer n; encode_num(0)
\* is the empty byte string, and for n # 0 encode_num(n) is the
\* little-endian magnitude of |n| with the sign in the high bit of the last
\* byte, one extra byte (0x80 negative, 0x00 positive) being appended
\* exactly when the top byte of the magnitude has its high bit set.
NumberCodingRoundTrips ==
    /\ pc \in {"decode", "decoded"} =>
          IF inval = 0 THEN step1.val = <<>>
          ELSE IsSignedMagnitude(step1.val, inval)
    /\ pc = "decoded" => step2.val = inval

\* -128 was encoded with the extra byte 0x80 and decoded again
DecodedMinus128 ==
    /\ pc = "decoded"
    /\ inval = -128
    /\ step1.val = <<128, 128>>
    /\ step2.val = -128

(***************************************************************************)
(* Properties of the signatures (specification SpecSign).                  *)
(***************************************************************************)
\* C12: for every private key e with 0 < e < N and every digest z, the
\* signature returned by PrivateKey(e).sign(z) is accepted by the key's own
\* public key: verify(z, sign(z)) is True.
OwnSignatureVerifies == pc = "verified" => step2.val = TRUE

\* when sign returned an r and an s in the open range (0, N), verify
\* accepts the signature
OwnSignatureInRangeVerifies ==
    (/\ pc = "verified"
     /\ step1.val.r \in 1..(N - 1)
     /\ step1.val.s \in 1..(N - 1))
        => step2.val = TRUE

\* C13: every signature (r, s) returned by PrivateKey.sign has s <= N / 2:
\* a computed s above N / 2 is replaced by N - s.  (s <= N / 2 is stated
\* as 2 * s <= N, on the bits of the two numbers.)
SignatureHasLowS ==
    pc = "signed" =>
        ~BigLess(BitsOf(SECP256K1_N), Append(BitsOf(step1.val), 0))

\* u * G + v * point for the u and v of the signature: u * s = z and
\* v * s = r modulo N
CombinedPoint(point, zz, r, s) ==
    LET u == CHOOSE u \in 0..(N - 1) : (u * s) % N = zz % N
        v == CHOOSE v \in 0..(N - 1) : (v * s) % N = r % N
    IN  PointAdd(PointMul(u, G), PointMul(v, point))

InRange(n) == 0 < n /\ n < N

\* C14: PublicKey.verify returns False, without raising, for every
\* signature whose r or s is outside the open range (0, N), for any digest
\* and any public key; it also returns False when u * G + v * P is the
\* point at infinity.
VerifyRejectsOutOfRange ==
    pc = "checked" =>
        /\ step1.exc = "none"
        /\ ~(InRange(inval.r) /\ InRange(inval.s)) => step1.val = FALSE
        /\ (/\ InRange(inval.r)
            /\ InRange(inval.s)
            /\ CombinedPoint(inval.point, inval.z, inval.r, inval.s) = Infinity)
              => step1.val = FALSE

\* verify rejected a signature whose r is the x of the combined point
\* but is not below N
RejectedHighR ==
    /\ pc = "checked"
    /\ inval.r >= N
    /\ InRange(inval.s)
    /\ CombinedPoint(inval.point, inval.z, inval.r, inval.s) # Infinity
    /\ CombinedPoint(inval.point, inval.z, inval.r, inval.s)[1] = inval.r
    /\ step1.val = FALSE

\* verify rejected a signature in range whose combined point is infinity
RejectedInfinity ==
    /\ pc = "checked"
    /\ InRange(inval.r)
    /\ InRange(inval.s)
    /\ CombinedPoint(inval.point, inval.z, inval.r, inval.s) = Infinity
    /\ step1.val = FALSE

\* C15: for every point of the curve other than infinity and for both
\* compressed = True and compressed = False, from_sec(sec(compressed)) is
\* the point: the compressed form starts with 0x02 for an even y and 0x03
\* for an odd one, and the parse returns the y of that parity with
\* y^2 = x^3 + 7.
SecRoundTrips ==
    (pc \in {"parsed_sec", "raised"} /\ inval.point # Infinity) =>
        /\ step1.exc = "none"
        /\ inval.compressed =>
              /\ Len(step1.val) = 33
              /\ step1.val[1] = IF inval.point[2] % 2 = 0 THEN 2 ELSE 3
        /\ ~inval.compressed => Len(step1.val) = 65 /\ step1.val[1] = 4
        /\ pc = "parsed_sec"
        /\ step2.val = inval.point
        /\ (step2.val[2] * step2.val[2]) % P =
              (step2.val[1] * step2.val[1] * step2.val[1] + 7) % P

\* a compressed point was parsed back whose y is not the root that sqrt
\* returns, but the other one
ParsedOtherRoot ==
    /\ pc = "parsed_sec"
    /\ inval.compressed
    /\ inval.point[2] # sqrt((FieldPow(inval.point[1], 3) + B) % P)
    /\ step2.val = inval.point

\* 1 <= i < N for the N of SECP256K1
InSignatureRange(i) == i # <<>> /\ BigLess(i, SECP256K1_N)

\* an integer of DER: the bytes of i, most significant first and without
\* leading zeros, behind one 0x00 when the first of them has its high bit
\* set; then the type 0x02 and the length in front
DerEncoding(i) ==
    LET body == IF i[1] >= 128 THEN <<0>> \o i ELSE i
    IN  <<2, Len(body)>> \o body

\* C16: for all r and s with 1 <= r < N and 1 <= s < N,
\* from_der(Signature(r, s).der()) has the same r and the same s; der()
\* writes each integer big-endian without leading zero bytes except one
\* 0x00 added when the first byte has its high bit set, and from_der
\* accepts that output.
DerRoundTrips ==
    (/\ pc \in {"parsed_der", "raised"}
     /\ InSignatureRange(inval.r)
     /\ InSignatureRange(inval.s))
        => /\ step1.exc = "none"
           /\ step1.val =
                 <<48, Len(DerEncoding(inval.r)) + Len(DerEncoding(inval.s))>>
                     \o DerEncoding(inval.r) \o DerEncoding(inval.s)
           /\ pc = "parsed_der"
           /\ step2.val = inval

\* a signature whose r fills 32 bytes with the high bit set, and so takes
\* 33 bytes in DER, and whose s takes one byte, was parsed back
ParsedLongAndShort ==
    /\ pc = "parsed_der"
    /\ Len(inval.r) = 32
    /\ inval.r[1] >= 128
    /\ InSignatureRange(inval.r)
    /\ Len(inval.s) = 1
    /\ Len(step1.val) = 2 + 35 + 3
    /\ step2.val = inval

\* C17: decode_base58_checksum(encode_base58_checksum(B)) equals B for
\* every byte string B, those with leading zero bytes and those of zero
\* bytes only included.
Base58ChecksumRoundTrips ==
    pc \in {"decoded58", "raised"}
        => pc = "decoded58" /\ step2.val = inval

\* a string of zero bytes only came back
DecodedZeroBytes ==
    /\ pc = "decoded58"
    /\ Len(inval) >= 2
    /\ \A i \in 1..Len(inval) : inval[i] = 0
    /\ step2.val = inval

\* the bytes of a magnitude, least significant first, on n bytes
LittleEndianOn(mag, n) ==
    [k \in 1..n |-> IF k <= Len(mag) THEN mag[Len(mag) + 1 - k] ELSE 0]

\* the form the varint of a magnitude below 2^64 has
VarintForm(mag) ==
    IF Len(mag) = 0 THEN <<0>>
    ELSE IF Len(mag) = 1 /\ mag[1] < 253 THEN mag
    ELSE IF Len(mag) <= 2 THEN <<253>> \o LittleEndianOn(mag, 2)
    ELSE IF Len(mag) <= 4 THEN <<254>> \o LittleEndianOn(mag, 4)
    ELSE <<255>> \o LittleEndianOn(mag, 8)

\* C18: for every i with 0 <= i < 2^64, read_varint on the bytes of
\* encode_varint(i) returns i and consumes exactly those bytes, and the
\* bytes are i itself below 0xFD, 0xFD and 2 bytes below 2^16, 0xFE and 4
\* bytes below 2^32 and 0xFF and 8 bytes otherwise, least significant byte
\* first; encode_varint raises for i < 0 and for i >= 2^64.
VarintCodingIsExact ==
    pc \in {"read", "raised"}
        => IF ~inval.i.neg /\ Len(inval.i.mag) <= 8
           THEN /\ step1 = Ok(VarintForm(inval.i.mag))
                /\ pc = "read"
                /\ step2.val = inval.i
                /\ step2.rest = inval.tail
           ELSE step1.exc = "ValueError"

\* 2^64 - 1 came back from its nine bytes, and what followed them was left
ReadLargestVarint ==
    /\ pc = "read"
    /\ inval.i.mag = [k \in 1..8 |-> 255]
    /\ Len(step1.val) = 9
    /\ inval.tail # <<>>
    /\ step2.rest = inval.tail

\* 2^64 was refused
RefusedTooLarge ==
    /\ pc = "raised"
    /\ inval.i = [neg |-> FALSE, mag |-> <<1, 0, 0, 0, 0, 0, 0, 0, 0>>]
    /\ step1.exc = "ValueError"

\* a script of opcodes and of push elements of shortest to 520 bytes
ScriptInRange(script_cmds, shortest) ==
    \A i \in 1..Len(script_cmds) :
        IF IsInt(script_cmds[i]) THEN IsOpcode(script_cmds[i])
        ELSE Len(script_cmds[i].bytes) \in shortest..520

\* a transaction with fields in range: version, locktime, prev_index and
\* sequence below 2^32, amounts below 2^64, prev_tx of 32 bytes
TxInRange(tx, shortest) ==
    /\ Len(tx.version) <= 4
    /\ Len(tx.locktime) <= 4
    /\ \A i \in 1..Len(tx.tx_ins) :
          /\ Len(tx.tx_ins[i].prev_tx) = 32
          /\ Len(tx.tx_ins[i].prev_index) <= 4
          /\ Len(tx.tx_ins[i].sequence) <= 4
          /\ ScriptInRange(tx.tx_ins[i].script_sig, shortest)
    /\ \A i \in 1..Len(tx.tx_outs) :
          /\ Len(tx.tx_outs[i].amount) <= 8
          /\ ScriptInRange(tx.tx_outs[i].script_pubkey, shortest)

TxRoundTripOver == pc \in {"tx_read", "raised"}

\* same version and locktime and, position by position, inputs with the
\* same prev_tx, prev_index, script_sig commands and sequence and outputs
\* with the same amount and script_pubkey commands
TxRoundTripExact ==
    /\ pc = "tx_read"
    /\ step2.val.version = inval.version
    /\ step2.val.locktime = inval.locktime
    /\ Len(step2.val.tx_ins) = Len(inval.tx_ins)
    /\ \A i \in 1..Len(inval.tx_ins) :
          /\ step2.val.tx_ins[i].prev_tx = inval.tx_ins[i].prev_tx
          /\ step2.val.tx_ins[i].prev_index = inval.tx_ins[i].prev_index
          /\ step2.val.tx_ins[i].script_sig = inval.tx_ins[i].script_sig
          /\ step2.val.tx_ins[i].sequence = inval.tx_ins[i].sequence
    /\ Len(step2.val.tx_outs) = Len(inval.tx_outs)
    /\ \A i \in 1..Len(inval.tx_outs) :
          /\ step2.val.tx_outs[i].amount = inval.tx_outs[i].amount
          /\ step2.val.tx_outs[i].script_pubkey
                 = inval.tx_outs[i].script_pubkey

\* C19, as stated: for every transaction with fields in range and scripts
\* of opcodes and push elements of up to 520 bytes,
\* Tx.deserialize(Tx.serialize(tx)) has the same version, locktime, inputs
\* and outputs.
TxRoundTripKeepsFields ==
    (TxRoundTripOver /\ TxInRange(inval, 0)) => TxRoundTripExact

\* C19: for every transaction with fields in range and scripts of opcodes
\* outside 0x01..0x4D and push elements of 1 to 520 bytes,
\* Tx.deserialize(Tx.serialize(tx)) has the same version, locktime, inputs
\* and outputs.  (An empty push element reads back as opcode 0.)
TxRoundTripKeepsFieldsOfNonEmptyPushes ==
    (TxRoundTripOver /\ TxInRange(inval, 1)) => TxRoundTripExact

\* a transaction of two inputs and two outputs came back as it was, with a
\* prev_index of 2^32 - 1, an element of 300 bytes and an amount of
\* 2^64 - 1 in it
TxRoundTripOfWidestFields ==
    /\ TxRoundTripExact
    /\ Len(inval.tx_ins) = 2
    /\ Len(inval.tx_outs) = 2
    /\ \E i \in 1..2 :
          /\ inval.tx_ins[i].prev_index = <<255, 255, 255, 255>>
          /\ \E j \in 1..Len(inval.tx_ins[i].script_sig) :
                /\ ~IsInt(inval.tx_ins[i].script_sig[j])
                /\ Len(inval.tx_ins[i].script_sig[j].bytes) = 300
    /\ \E i \in 1..2 : inval.tx_outs[i].amount = [k \in 1..8 |-> 255]

\* the call that made this step was fetch(k, fresh = f)
FetchOf(k, f) ==
    returned'.op = "fetch" /\ returned'.tx_id = k /\ returned'.fresh = f

\* C20: once a transaction is in the cache under a tx_id, every later
\* fetch(tx_id, fresh=False), after any other calls of fetch and
\* load_cache, returns that transaction and makes no request; only a call
\* with fresh=True may replace it.  Step by step: a fetch with fresh=False
\* of an id in the cache returns the transaction held under it without a
\* request, and every call but a fetch of that id with fresh=True leaves
\* the transaction under it.
CachedTxStaysUntilFreshFetch ==
    [][\A k \in DOMAIN cache :
          /\ FetchOf(k, FALSE)
                => /\ ~returned'.requested
                   /\ returned'.exc = "none"
                   /\ returned'.val.tx = cache[k].tx
          /\ ~FetchOf(k, TRUE)
                => /\ k \in DOMAIN cache'
                   /\ cache'[k].tx = cache[k].tx]_vars

\* what holds of fetch alone: with fresh=False it returns the transaction
\* held under the id without a request, and no call of fetch changes a
\* transaction of the cache
FetchKeepsCachedTx ==
    [][\A k \in DOMAIN cache :
          /\ FetchOf(k, FALSE)
                => /\ ~returned'.requested
                   /\ returned'.exc = "none"
                   /\ returned'.val.tx = cache[k].tx
          /\ returned'.op = "fetch"
                => /\ k \in DOMAIN cache'
                   /\ cache'[k].tx = cache[k].tx]_vars

\* the cache holds under an id a transaction with another id
CachedUnderAnotherId ==
    \E k \in DOMAIN cache : Tx_id(cache[k].tx) # k

\* fetch returned a transaction
FetchReturned == returned.op = "fetch" /\ returned.exc = "none"

\* C29: after any sequence of load_cache and fetch calls, every
\* transaction that fetch(tx_id, ...) returns has id() equal to the
\* requested tx_id, and a call of fetch that requested a transaction and
\* did not return one (the id of the fetched transaction differs from the
\* requested one among the reasons) leaves the cache as it was.
FetchReturnsRequestedTx ==
    /\ [](FetchReturned => Tx_id(returned.val.tx) = returned.tx_id)
    /\ [][(returned'.op = "fetch" /\ returned'.exc # "none")
              => cache' = cache]_vars

\* the part of C29 that holds: a call of fetch that raises stores nothing,
\* and a call of fetch stores no transaction under an id that is not its own
FetchStoresOnlyUnderOwnId ==
    [][returned'.op = "fetch"
          => /\ returned'.exc # "none" => cache' = cache
             /\ \A k \in DOMAIN cache' :
                   (k \notin DOMAIN cache \/ cache'[k].tx # cache[k].tx)
                       => Tx_id(cache'[k].tx) = k]_vars

\* fetch returned a transaction of the cache whose id is not the requested
\* one
FetchReturnedAnotherTx ==
    FetchReturned /\ Tx_id(returned.val.tx) # returned.tx_id
(***************************************************************************)
(* Properties of the opcode handlers (specification SpecOps).              *)
(***************************************************************************)
IsIfCmd(c) == IsOp(c, 99) \/ IsOp(c, 100)

\* the nesting depth at which items[i] stands: 1 plus the blocks opened and
\* not yet closed before it
DepthAt(items, i) ==
    1 + Cardinality({j \in 1..(i - 1) : IsIfCmd(items[j])})
      - Cardinality({j \in 1..(i - 1) : IsOp(items[j], 104)})

EndifPositions(items) ==
    {i \in 1..Len(items) : IsOp(items[i], 104) /\ DepthAt(items, i) = 1}

HasMatchingEndif(items) == EndifPositions(items) # {}

MatchingEndif(items) ==
    CHOOSE i \in EndifPositions(items) :
        \A j \in EndifPositions(items) : i <= j

ElsePositions(items) ==
    {i \in 1..(MatchingEndif(items) - 1) :
        IsOp(items[i], 103) /\ DepthAt(items, i) = 1}

FirstElse(items) ==
    IF ElsePositions(items) = {} THEN MatchingEndif(items)
    ELSE CHOOSE i \in ElsePositions(items) :
             \A j \in ElsePositions(items) : i <= j

\* items[from..to] without the positions in skip
RECURSIVE Without(_, _, _, _)
Without(items, from, to, skip) ==
    IF from > to THEN <<>>
    ELSE (IF from \in skip THEN <<>> ELSE <<items[from]>>)
         \o Without(items, from + 1, to, skip)

TrueBranch(items) == SubSeq(items, 1, FirstElse(items) - 1)

FalseBranch(items) ==
    Without(items, FirstElse(items) + 1, MatchingEndif(items) - 1,
            ElsePositions(items))

AfterEndif(items) == SubSeq(items, MatchingEndif(items) + 1, Len(items))

IfTakesTrueBranch(c) ==
    IF c.fn = 99 THEN decode_num(Top(c.stack)) # 0
    ELSE decode_num(Top(c.stack)) = 0

IfOutcomeAsSpecified ==
    /\ result = "True"
    /\ stack = Front(call.stack)
    /\ cmds = (IF IfTakesTrueBranch(call) THEN TrueBranch(call.items)
               ELSE FalseBranch(call.items)) \o AfterEndif(call.items)

\* C5: OP_IF / OP_NOTIF called with a non-empty stack and commands that
\* contain the matching OP_ENDIF pops the top value, removes the commands up
\* to and including that OP_ENDIF, and prepends the true-branch or the
\* false-branch to the commands that follow it.
IfSelectsBranch ==
    (/\ pc = "returned"
     /\ call.fn \in {99, 100}
     /\ call.stack # <<>>
     /\ HasMatchingEndif(call.items))
        => IfOutcomeAsSpecified

\* the same for a call whose commands are a list, as op_if documents them
\* (Script.evaluate hands over the deque it pops commands from)
IfSelectsBranchOnList ==
    (/\ pc = "returned"
     /\ call.fn \in {99, 100}
     /\ call.ik = "list"
     /\ call.stack # <<>>
     /\ HasMatchingEndif(call.items))
        => IfOutcomeAsSpecified

\* an element that cannot be a SEC public key (33 or 65 bytes)
NotSec(b) == Len(b) \notin {33, 65}

\* C6: OP_CHECKSIG called with at least two elements, the popped public key
\* not a valid SEC encoding, pushes the zero value and returns true.
CheckSigParseFailurePushesZero ==
    (/\ pc = "returned"
     /\ call.fn = 172
     /\ Len(call.stack) >= 2
     /\ NotSec(Top(call.stack)))
        => /\ result = "True"
           /\ stack = Append(Pop2(call.stack), encode_num(0))

Threshold == W(7629, 25856)

OppositeSides(element, locktime) ==
    WLess(element, Threshold) # WLess(locktime, Threshold)

\* C7: op_checklocktimeverify returns false whenever the top item and the
\* locktime lie on opposite sides of 500,000,000 (as for top 499,999,999
\* with locktime 500,000,000), and returns true with the stack unchanged for
\* top 500,000,000 with locktime 500,000,000 and sequence # 0xFFFFFFFF.
LockTimeThresholdRule ==
    (/\ pc = "returned"
     /\ call.fn = 177
     /\ call.stack # <<>>)
        => LET element == DecodeWide(Top(call.stack))
           IN  /\ (~element.neg /\ OppositeSides(element, call.a1))
                      => result = "False"
               /\ (/\ Top(call.stack) = encode_num(500000000)
                   /\ call.a1 = Threshold
                   /\ call.a2 # W(65535, 65535))
                      => (result = "True" /\ stack = call.stack)

\* the number of stack elements a handler consumes or reads
Arity(fn) ==
    CASE fn \in {113} -> 6
      [] fn \in {112, 114} -> 4
      [] fn \in {111, 123, 165} -> 3
      [] fn \in {109, 110, 119, 120, 124, 125, 135, 136, 147, 148, 172, 173}
            \cup (154..164) -> 2
      [] fn \in {99, 100, 105, 107, 115, 117, 118, 121, 122, 130, 139, 140,
                 177, 178} \cup (143..146) \cup (166..170) -> 1
      [] OTHER -> 0

\* C9: a handler called with fewer stack elements than it consumes returns
\* False instead of raising; so does OP_FROMALTSTACK on an empty alt stack,
\* and OP_PICK / OP_ROLL when the popped index n is negative or not below
\* the remaining depth.
UnderflowReturnsFalse ==
    pc = "returned" =>
        /\ Len(call.stack) < Arity(call.fn) => result = "False"
        /\ (call.fn = 108 /\ call.alt = <<>>) => result = "False"
        /\ (call.fn \in {121, 122} /\ call.stack # <<>>) =>
              LET n == decode_num(Top(call.stack))
              IN  (n < 0 \/ n >= Len(call.stack) - 1) => result = "False"

\* C10: after every executed command every element of the main stack and
\* of the alt stack is a byte string.
StackElementsAreBytes ==
    /\ \A i \in 1..Len(stack) : IsBytes(stack[i])
    /\ \A i \in 1..Len(altstack) : IsBytes(altstack[i])

\* a handler pushed the encoding of a number it computed: OP_SUB left -3
PushedNumber ==
    /\ pc = "returned"
    /\ call.fn = 148
    /\ result = "True"
    /\ Top(stack) = <<131>>

(***************************************************************************)
(* Properties of FinFieldElem (specification SpecField).                   *)
(***************************************************************************)

\* the element 1 of the field of a
One(a) == Ok([num |-> 1, prime |-> a.prime])

\* C21: for every prime p and every element a # 0 of F_p, a / a is the
\* element 1, a * a ** (p - 2) is 1, a ** (p - 1) is 1, and for every
\* integer k, positive or negative, a ** k * a ** (-k) is 1.
InverseIsTrue ==
    (pc = "done" /\ step1.val.num # 0) =>
        /\ step2.op \in {"truediv", "mul_inverse", "pow_product"}
              => step2.out = One(step1.val)
        /\ (step2.op = "pow" /\ inval.exponent = inval.prime - 1)
              => step2.out = One(step1.val)

\* a ** -5 * a ** 5 was computed for a = 2 in the field of 13 elements
InvertedByNegativePower ==
    /\ pc = "done"
    /\ step2.op = "pow_product"
    /\ inval = [num |-> 2, prime |-> 13, exponent |-> -5]
    /\ FinFieldElem_pow(step1.val, -5) = Ok([num |-> 11, prime |-> 13])

\* num ** k mod p by k multiplications
RECURSIVE MultipliedByItself(_, _, _)
MultipliedByItself(num, k, p) ==
    IF k = 0 THEN 1 % p ELSE (MultipliedByItself(num, k - 1, p) * num) % p

\* C30: for every prime p, every element a of F_p, zero among them, and
\* every integer k >= 0, a ** k is a multiplied by itself k times mod p,
\* with a ** 0 the element 1; the zero element raised to any k >= 1 is the
\* zero element.
PowIsRepeatedMultiplication ==
    (pc = "done" /\ step2.op = "pow" /\ inval.exponent >= 0) =>
        /\ step2.out.exc = "none"
        /\ step2.out.val.prime = inval.prime
        /\ step2.out.val.num =
               MultipliedByItself(inval.num, inval.exponent, inval.prime)

\* the same for the elements other than zero, and for zero with an exponent
\* that is no multiple of p - 1
PowOfNonZeroIsRepeatedMultiplication ==
    (/\ pc = "done"
     /\ step2.op = "pow"
     /\ inval.exponent >= 0
     /\ (inval.num # 0 \/ inval.exponent % (inval.prime - 1) # 0)) =>
        /\ step2.out.exc = "none"
        /\ step2.out.val.prime = inval.prime
        /\ step2.out.val.num =
               MultipliedByItself(inval.num, inval.exponent, inval.prime)

(***************************************************************************)
(* Properties of ECPoint (specifications SpecPoint, SpecAdd, SpecMul).     *)
(***************************************************************************)

\* y^2 = x^3 + a * x + b, computed on the integers
SatisfiesEquation(pt) ==
    /\ pt.x.prime = pt.a.prime
    /\ pt.y.prime = pt.a.prime
    /\ pt.b.prime = pt.a.prime
    /\ (pt.y.num * pt.y.num) % pt.a.prime =
           (pt.x.num * pt.x.num * pt.x.num + pt.a.num * pt.x.num + pt.b.num)
               % pt.a.prime

\* the point at infinity with both coordinates absent, or both coordinates
\* present and on the curve
InfinityOrOnCurve(pt) ==
    \/ pt.x = None /\ pt.y = None
    \/ pt.x # None /\ pt.y # None /\ SatisfiesEquation(pt)

\* C22: every curve point object that exists, built by the constructor from
\* any arguments or returned by addition or scalar multiplication, is the
\* point at infinity with both x and y absent, or has both coordinates
\* present and satisfying y^2 = x^3 + a * x + b; any other combination
\* raises an error.
PointsAreInfinityOrOnCurve ==
    /\ (pc \in {"point", "point_returned"} /\ step1.exc = "none")
           => InfinityOrOnCurve(step1.val)
    /\ (pc = "point_returned" /\ step2.exc = "none")
           => InfinityOrOnCurve(step2.val)

\* the same for the arguments with both coordinates present or both absent,
\* over the fields of more than 3 elements
PointsOfWholeArgumentsAreOnCurve ==
    (/\ pc \in {"point", "point_returned"}
     /\ (inval.x = None) = (inval.y = None)
     /\ inval.a.prime > 3)
        => /\ InfinityOrOnCurve(step1.val)
           /\ pc = "point_returned" => InfinityOrOnCurve(step2.val)

SameCurve(p1, p2) == p1.a = p2.a /\ p1.b = p2.b

\* C23: if either operand of addition is the point at infinity the result
\* is the other operand, this rule being applied first; the curve-mismatch
\* error is signalled only when neither operand is infinity and their
\* (a, b) differ.
InfinityRuleComesFirst ==
    pc \in {"left", "left_raised"} =>
        /\ inval.p.x = None => step1 = Ok(inval.q)
        /\ inval.q.x = None => step1 = Ok(inval.p)
        /\ (step1.exc = "TypeError") =>
               /\ inval.p.x # None
               /\ inval.q.x # None
               /\ ~SameCurve(inval.p, inval.q)

\* the same for two operands of one curve
InfinityRuleOnOneCurve ==
    (pc \in {"left", "left_raised"} /\ SameCurve(inval.p, inval.q))
        => /\ inval.p.x = None => step1 = Ok(inval.q)
           /\ inval.q.x = None => step1 = Ok(inval.p)
           /\ step1.exc # "TypeError"

\* 4 * a^3 + 27 * b^2 # 0 in the field: the curve has no singular point
NonSingular(a, b) ==
    (4 * a.num * a.num * a.num + 27 * b.num * b.num) % a.prime # 0

\* C24: point addition is associative on every curve: for all points P, Q,
\* R of one curve over one prime field, infinity, equal points, mutually
\* inverse points and points with y = 0 among them, (P + Q) + R ==
\* P + (Q + R), and every intermediate sum is again a point of that curve.
AdditionIsAssociative ==
    (/\ SameCurve(inval.p, inval.q)
     /\ SameCurve(inval.p, inval.r)) =>
        /\ pc \notin {"left_raised", "raised"}
        /\ pc \in {"left", "left_added", "right", "added"}
               => /\ InfinityOrOnCurve(step1.val)
                  /\ SameCurve(step1.val, inval.p)
        /\ pc \in {"right", "added"}
               => /\ InfinityOrOnCurve(step2.val)
                  /\ SameCurve(step2.val, inval.p)
        /\ pc = "added" => ECPoint_eq(step1.val, step2.val)

\* the same on the curves without a singular point over the fields of more
\* than 3 elements
AdditionIsAssociativeOnNonSingular ==
    (/\ SameCurve(inval.p, inval.q)
     /\ SameCurve(inval.p, inval.r)
     /\ inval.p.a.prime > 3
     /\ NonSingular(inval.p.a, inval.p.b)) =>
        /\ pc \notin {"left_raised", "raised"}
        /\ pc \in {"left", "left_added", "right", "added"}
               => /\ InfinityOrOnCurve(step1.val)
                  /\ SameCurve(step1.val, inval.p)
        /\ pc \in {"right", "added"}
               => /\ InfinityOrOnCurve(step2.val)
                  /\ SameCurve(step2.val, inval.p)
        /\ pc = "added" => ECPoint_eq(step1.val, step2.val)

\* point added to itself k times, from the point at infinity
RECURSIVE AddedToItself(_, _)
AddedToItself(point, k) ==
    IF k = 0 THEN Ok(InfinityOf(point.a, point.b))
    ELSE Lift2(ECPoint_add, AddedToItself(point, k - 1), Ok(point))

\* C25: for every curve point P and every integer coefficient k >= 0, the
\* double-and-add product k * P is P added to itself k times, with 0 * P
\* the point at infinity; over F_223 with a = 0 and b = 7, 21 * (47, 71) is
\* the point at infinity.
ProductIsRepeatedAddition ==
    pc \in {"multiplied", "raised"} =>
        /\ AddedToItself(inval.point, inval.coefficient).exc = "none"
               => step1 = AddedToItself(inval.point, inval.coefficient)
        /\ inval.coefficient = 0
               => step1 = Ok(InfinityOf(inval.point.a, inval.point.b))
        /\ (/\ inval.point.x = [num |-> 47, prime |-> 223]
            /\ inval.point.y = [num |-> 71, prime |-> 223]
            /\ inval.coefficient = 21)
               => step1 = Ok(InfinityOf(inval.point.a, inval.point.b))

\* the same over the fields of more than 3 elements
ProductIsRepeatedAdditionAboveThree ==
    (pc \in {"multiplied", "raised"} /\ inval.point.a.prime > 3) =>
        /\ step1 = AddedToItself(inval.point, inval.coefficient)
        /\ step1.exc = "none"
        /\ inval.coefficient = 0
               => step1 = Ok(InfinityOf(inval.point.a, inval.point.b))
        /\ (/\ inval.point.x = [num |-> 47, prime |-> 223]
            /\ inval.point.y = [num |-> 71, prime |-> 223]
            /\ inval.coefficient = 21)
               => step1 = Ok(InfinityOf(inval.point.a, inval.point.b))

(***************************************************************************)
(* Properties of Script objects (specification SpecScripts).               *)
(***************************************************************************)

\* C26: each Script owns its command list: after any sequence of Script
\* constructions (Script() with no argument among them, as TxIn builds for
\* a missing script_sig) and of changes to one Script's cmds, the commands
\* of every other Script are unchanged.
OtherScriptsKeepCmds ==
    [][\A j \in 1..Len(scripts) :
           j # changed' => CmdsOf(heap', scripts', j) = CmdsOf(heap, scripts, j)
      ]_vars

\* the same for the Scripts built with a deque of their own
ScriptsOfOwnDequeKeepCmds ==
    [][\A j \in 1..Len(scripts) :
           (j # changed' /\ scripts[j].cmds # DefaultCmds)
               => CmdsOf(heap', scripts', j) = CmdsOf(heap, scripts, j)
      ]_vars
(***************************************************************************)
(* Properties of op_2rot and op_checksequenceverify (specification         *)
(* SpecOps).                                                               *)
(***************************************************************************)

\* the stack with its fifth and sixth items from the top moved to the top
Rotated2(s) ==
    LET n == Len(s)
    IN  SubSeq(s, 1, n - 6) \o SubSeq(s, n - 3, n) \o SubSeq(s, n - 5, n - 4)

\* C27: OP_2ROT on a stack of six items or more returns true and moves the
\* fifth and sixth items from the top to the top, the length of the stack
\* unchanged; on a stack of fewer than six items it returns false and
\* leaves the stack as it was.
TwoRotMovesItems ==
    (pc = "returned" /\ call.fn = 113) =>
        IF Len(call.stack) >= 6
        THEN /\ result = "True"
             /\ Len(stack) = Len(call.stack)
             /\ stack = Rotated2(call.stack)
        ELSE result = "False" /\ stack = call.stack

\* the part of C27 about the stacks of fewer than six items
TwoRotUnderflowLeavesStack ==
    (pc = "returned" /\ call.fn = 113 /\ Len(call.stack) < 6) =>
        result = "False" /\ stack = call.stack

\* what OP_2ROT does on a list of six items or more: the fifth and sixth
\* items from the top are copied, and the stack is two items longer
TwoRotCopiesItems ==
    (pc = "returned" /\ call.fn = 113 /\ Len(call.stack) >= 6
        /\ call.k = "list") =>
        /\ result = "True"
        /\ stack = call.stack \o SubSeq(call.stack, Len(call.stack) - 5,
                                        Len(call.stack) - 4)

\* C28: op_checksequenceverify never changes the stack, and for a top item
\* that is non-negative with bit 31 clear it returns false when version is
\* below 2, when bit 31 of sequence is set, when bit 22 of the item and of
\* sequence differ, or when the low 16 bits of the item exceed those of
\* sequence.
CheckSequenceVerifyEnforcesItem ==
    (pc = "returned" /\ call.fn = 178) =>
        /\ stack = call.stack
        /\ (/\ call.stack # <<>>
            /\ ~DecodeWide(Top(call.stack)).neg
            /\ WBit(DecodeWide(Top(call.stack)), 31) = 0
            /\ \/ call.a1.lo < 2
               \/ WBit(call.a2, 31) = 1
               \/ WBit(DecodeWide(Top(call.stack)), 22) # WBit(call.a2, 22)
               \/ DecodeWide(Top(call.stack)).lo > call.a2.lo)
               => result = "False"

\* the parts of C28 the handler does keep: the stack is never changed, and
\* a sequence with bit 31 set is refused
CheckSequenceVerifyLeavesStack ==
    (pc = "returned" /\ call.fn = 178) =>
        /\ stack = call.stack
        /\ WBit(call.a2, 31) = 1 => result = "False"

====
